---------------------------- MODULE Spec2Model ----------------------------
(***************************************************************************)
(* A model of the PsyFinder API (src/api): the TTL cache (cache.py), the   *)
(* cache-aside request handlers and the background refresh (main.py), the  *)
(* keyword classifier (filters.py) and the deduplication / fallback steps  *)
(* of the scraping pipelines (the three scraper modules).                  *)
(*                                                                         *)
(* Time is the value of time.time() in whole seconds.  The clock never     *)
(* runs backwards.  Text is a sequence of Unicode code points.             *)
(***************************************************************************)
EXTENDS Integers, Sequences, FiniteSets, TLC

VARIABLES
    now,          \* the value time.time() returns next
    store,        \* TTLCache._cache: a dict from key to item
    written,      \* history: per key, the last set not followed by delete/clear
    ret,          \* history: the last call and what it returned (of the API:
                  \* the last GET /events, kept while only time passes)
    is_scraping,  \* main.is_scraping
    queued,       \* background tasks added by add_task and not yet started
    running,      \* scrape_and_cache_events coroutines awaiting the executor
    startup,      \* position of startup_event
    task,         \* history: how the last step of a refresh ended
    fin,          \* input of the pure function under check
    fout,         \* its output
    fpc,          \* position of the pure-function harness
    lock,         \* owner of TTLCache._lock
    threads       \* the call each thread is in, and how its last call ended

vars == <<now, store, written, ret, is_scraping, queued, running, startup,
          task, fin, fout, fpc, lock, threads>>

cacheVars == <<now, store, written>>
apiVars == <<is_scraping, queued, running, startup, task>>
fnVars == <<fin, fout, fpc>>
threadVars == <<lock, threads>>

(***************************************************************************)
(* Bounds of the model.                                                    *)
(***************************************************************************)
\* the clock of the TTLCache harness stops at this time
MaxTime == 6
\* time.time() may advance by up to this much between two reads in one call
MaxJitter == 1

(***************************************************************************)
(* Python values.                                                          *)
(***************************************************************************)
None == "None"

Min(a, b) == IF a <= b THEN a ELSE b

(***************************************************************************)
(* cache.py: class TTLCache.  Every method runs under self._lock, so each  *)
(* is one atomic step.  A method that reads time.time() more than once is  *)
(* given one parameter per read.                                           *)
(***************************************************************************)

\* the dict without the key: del self._cache[key]
DictDel(d, key) == [k \in DOMAIN d \ {key} |-> d[k]]

\* the dict with the key bound: self._cache[key] = item
DictPut(d, key, item) == [k \in DOMAIN d \cup {key} |-> IF k = key THEN item ELSE d[k]]

\* TTLCache.get that never looks at expires_at
TTLGetNoExpiry(s, key, t1, t2) ==
    IF key \notin DOMAIN s
    THEN [store |-> s, hit |-> FALSE, value |-> None]
    ELSE [store |-> [s EXCEPT ![key].last_accessed = t2],
          hit |-> TRUE, value |-> s[key].value]

\* TTLCache.get whose hit also restarts the item's time to live
TTLGetSliding(s, key, t1, t2) ==
    IF key \notin DOMAIN s
    THEN [store |-> s, hit |-> FALSE, value |-> None]
    ELSE IF t1 > s[key].expires_at
         THEN [store |-> DictDel(s, key), hit |-> FALSE, value |-> None]
         ELSE [store |-> [s EXCEPT ![key].last_accessed = t2,
                                   ![key].expires_at = t2 + (@ - s[key].created_at)],
               hit |-> TRUE, value |-> s[key].value]

\* TTLCache.get(key): t1 is the time read for the TTL check, t2 the time
\* stored in last_accessed
TTLGet(s, key, t1, t2) ==
    IF key \notin DOMAIN s
    THEN [store |-> s, hit |-> FALSE, value |-> None]
    ELSE IF t1 > s[key].expires_at
         THEN [store |-> DictDel(s, key), hit |-> FALSE, value |-> None]
         ELSE [store |-> [s EXCEPT ![key].last_accessed = t2],
               hit |-> TRUE, value |-> s[key].value]

\* TTLCache.set(key, value, ttl), ttl already defaulted: t1, t2, t3 are the
\* three reads of time.time() in the order of the source
TTLSet(s, key, value, ttl, t1, t2, t3) ==
    DictPut(s, key, [value |-> value,
                     expires_at |-> t1 + ttl,
                     created_at |-> t2,
                     last_accessed |-> t3])

\* TTLCache.delete(key)
TTLDelete(s, key) ==
    IF key \in DOMAIN s
    THEN [store |-> DictDel(s, key), result |-> TRUE]
    ELSE [store |-> s, result |-> FALSE]

\* TTLCache.clear()
TTLClear(s) == [k \in {} |-> None]

\* cleanup_expired that takes an item for expired at the second it expires
TTLCleanupExpiredEarly(s, t) ==
    LET expired_keys == {k \in DOMAIN s : t >= s[k].expires_at}
    IN [store |-> [k \in DOMAIN s \ expired_keys |-> s[k]],
        result |-> Cardinality(expired_keys)]

\* TTLCache.cleanup_expired(): t is current_time
TTLCleanupExpired(s, t) ==
    LET expired_keys == {k \in DOMAIN s : t > s[k].expires_at}
    IN [store |-> [k \in DOMAIN s \ expired_keys |-> s[k]],
        result |-> Cardinality(expired_keys)]

\* TTLCache.get_stats(): t is current_time
TTLGetStats(s, t) ==
    LET total_items == Cardinality(DOMAIN s)
        expired_items == Cardinality({k \in DOMAIN s : t > s[k].expires_at})
    IN [total_items |-> total_items,
        valid_items |-> total_items - expired_items,
        expired_items |-> expired_items,
        cache_keys |-> DOMAIN s]

\* TTLCache.has_valid_cache(key)
TTLHasValidCache(s, key, t) ==
    IF key \notin DOMAIN s THEN FALSE ELSE t <= s[key].expires_at

(***************************************************************************)
(* The TTLCache harness: one TTLCache(default_ttl=5), as the test at the   *)
(* end of cache.py builds it, driven by arbitrary calls of its methods.    *)
(***************************************************************************)
\* default_ttl of the cache of the test
TestTTL == 5
\* an explicit ttl argument of set
ShortTTL == 2

TestKeys == {"test_key", "other_key"}
TestValues == {"test_value", "other_value"}
\* the ttl argument of set: <<>> is ttl=None, <<n>> is ttl=n
TTLArgs == {<<>>, <<ShortTTL>>}

\* if ttl is None: ttl = self.default_ttl
EffectiveTTL(default_ttl, ttl) == IF ttl = <<>> THEN default_ttl ELSE ttl[1]

\* history of a key with no set since the last delete or clear
NotWritten == [live |-> FALSE, value |-> None, expires_at |-> 0]

\* the reads of the clock a call may make: each at most MaxJitter after the
\* one before, none after MaxTime
Later(t) == t .. Min(t + MaxJitter, MaxTime)

NoRet == [op |-> "none"]

InitIdleThreads ==
    /\ lock = None
    /\ threads = <<>>

InitIdleApi ==
    /\ is_scraping = FALSE
    /\ queued = 0
    /\ running = 0
    /\ startup = "off"
    /\ task = "none"
    /\ InitIdleThreads

InitIdleFn ==
    /\ fin = <<>>
    /\ fout = <<>>
    /\ fpc = "off"

InitCache ==
    /\ now = 0
    /\ store = [k \in {} |-> None]
    /\ written = [k \in TestKeys |-> NotWritten]
    /\ ret = NoRet
    /\ InitIdleApi
    /\ InitIdleFn

CacheSet ==
    \E key \in TestKeys, value \in TestValues, ttl \in TTLArgs :
      \E t2 \in Later(now) : \E t3 \in Later(t2) :
        /\ store' = TTLSet(store, key, value, EffectiveTTL(TestTTL, ttl), now, t2, t3)
        /\ written' = [written EXCEPT ![key] =
                          [live |-> TRUE, value |-> value,
                           expires_at |-> store'[key].expires_at]]
        /\ now' = t3
        /\ ret' = [op |-> "set", key |-> key, ttl |-> EffectiveTTL(TestTTL, ttl)]
        /\ UNCHANGED <<apiVars, fnVars, threadVars>>

CacheGet ==
    \E key \in TestKeys : \E t2 \in Later(now) :
        LET r == TTLGet(store, key, now, t2)
        IN /\ store' = r.store
           /\ now' = t2
           /\ ret' = [op |-> "get", key |-> key, time |-> now,
                      hit |-> r.hit, value |-> r.value]
           /\ UNCHANGED <<written, apiVars, fnVars, threadVars>>

CacheDelete ==
    \E key \in TestKeys :
        LET r == TTLDelete(store, key)
        IN /\ store' = r.store
           /\ written' = [written EXCEPT ![key] = NotWritten]
           /\ ret' = [op |-> "delete", key |-> key, result |-> r.result]
           /\ UNCHANGED <<now, apiVars, fnVars, threadVars>>

CacheClear ==
    /\ store' = TTLClear(store)
    /\ written' = [k \in TestKeys |-> NotWritten]
    /\ ret' = [op |-> "clear"]
    /\ UNCHANGED <<now, apiVars, fnVars, threadVars>>

CacheCleanupExpired ==
    LET r == TTLCleanupExpired(store, now)
    IN /\ store' = r.store
       /\ ret' = [op |-> "cleanup_expired", time |-> now, result |-> r.result]
       /\ UNCHANGED <<now, written, apiVars, fnVars, threadVars>>

CacheGetStats ==
    /\ ret' = [op |-> "get_stats", time |-> now, result |-> TTLGetStats(store, now)]
    /\ UNCHANGED <<cacheVars, apiVars, fnVars, threadVars>>

CacheHasValidCache ==
    \E key \in TestKeys :
        /\ ret' = [op |-> "has_valid_cache", key |-> key, time |-> now,
                   result |-> TTLHasValidCache(store, key, now)]
        /\ UNCHANGED <<cacheVars, apiVars, fnVars, threadVars>>

\* time passes between two calls
CacheTick ==
    /\ now < MaxTime
    /\ now' = now + 1
    /\ ret' = [op |-> "tick"]
    /\ UNCHANGED <<store, written, apiVars, fnVars, threadVars>>

NextCache ==
    \/ CacheSet
    \/ CacheGet
    \/ CacheDelete
    \/ CacheClear
    \/ CacheCleanupExpired
    \/ CacheGetStats
    \/ CacheHasValidCache
    \/ CacheTick

SpecCache == InitCache /\ [][NextCache]_vars

\* C1: after set(k, v, ttl) and with no set, delete or clear of k since, a
\* get(k) made before expires_at returns v and a get(k) made after
\* expires_at returns None.
C1_GetAfterSet ==
    (ret.op = "get" /\ written[ret.key].live) =>
        /\ ret.time < written[ret.key].expires_at =>
              (ret.hit /\ ret.value = written[ret.key].value)
        /\ ret.time > written[ret.key].expires_at => ~ret.hit

\* a get that returned the value set, and one that missed after expiry
C1_Witness ==
    /\ ret.op = "get"
    /\ written[ret.key].live
    /\ ret.time > written[ret.key].expires_at
    /\ ~ret.hit

(***************************************************************************)
(* filters.py: the keyword classifier.  A text is a sequence of code       *)
(* points; str.lower() maps A-Z to a-z and leaves the other code points of *)
(* the texts below (digits, punctuation, kana, kanji) as they are.         *)
(***************************************************************************)
\* ALLOWED_KEYWORDS, in the order of the source
ALLOWED_KEYWORDS == <<
    <<112, 115, 121>>,  \* psy
    <<112, 115, 121, 99, 104, 101, 100, 101, 108, 105, 99>>,  \* psychedelic
    <<103, 111, 97>>,  \* goa
    <<102, 111, 114, 101, 115, 116>>,  \* forest
    <<12501, 12523, 12458, 12531>>,  \* U+30D5 U+30EB U+30AA U+30F3
    <<12469, 12452, 12465>>,  \* U+30B5 U+30A4 U+30B1
    <<12495, 12452, 12486, 12483, 12463>>,  \* U+30CF U+30A4 U+30C6 U+30C3 U+30AF
    <<112, 115, 121, 98, 105, 101, 110, 116>>,  \* psybient
    <<12469, 12452, 12499, 12456, 12531, 12488>>,  \* U+30B5 U+30A4 U+30D3 U+30A8 U+30F3 U+30C8
    <<116, 114, 97, 110, 99, 101>>,  \* trance
    <<12488, 12521, 12531, 12473>>,  \* U+30C8 U+30E9 U+30F3 U+30B9
    <<112, 115, 121, 116, 114, 97, 110, 99, 101>>,  \* psytrance
    <<112, 114, 111, 103, 114, 101, 115, 115, 105, 118, 101>>,  \* progressive
    <<12503, 12525, 12464, 12524, 12483, 12471, 12502>>,  \* U+30D7 U+30ED U+30B0 U+30EC U+30C3 U+30B7 U+30D6
    <<104, 105, 116, 101, 99, 104>>,  \* hitech
    <<100, 97, 114, 107, 112, 115, 121>>,  \* darkpsy
    <<102, 117, 108, 108, 45, 111, 110>>,  \* full-on
    <<109, 105, 110, 105, 109, 97, 108>>,  \* minimal
    <<12511, 12491, 12510, 12523>>,  \* U+30DF U+30CB U+30DE U+30EB
    <<97, 109, 98, 105, 101, 110, 116>>,  \* ambient
    <<12450, 12531, 12499, 12456, 12531, 12488>>  \* U+30A2 U+30F3 U+30D3 U+30A8 U+30F3 U+30C8
>>

\* exclude_keywords of is_psy_event_strict, in the order of the source
exclude_keywords == <<
    <<106, 112, 111, 112>>,  \* jpop
    <<106, 45, 112, 111, 112>>,  \* j-pop
    <<106, 97, 122, 122>>,  \* jazz
    <<114, 111, 99, 107>>,  \* rock
    <<112, 117, 110, 107>>,  \* punk
    <<109, 101, 116, 97, 108>>,  \* metal
    <<99, 108, 97, 115, 115, 105, 99, 97, 108>>,  \* classical
    <<28436, 27468>>,  \* U+6F14 U+6B4C
    <<12459, 12521, 12458, 12465>>,  \* U+30AB U+30E9 U+30AA U+30B1
    <<12450, 12452, 12489, 12523>>,  \* U+30A2 U+30A4 U+30C9 U+30EB
    <<12509, 12483, 12503, 12473>>  \* U+30DD U+30C3 U+30D7 U+30B9
>>


\* str.lower() on one code point
LowerChar(c) == IF c >= 65 /\ c <= 90 THEN c + 32 ELSE c

\* str.lower()
LowerText(t) == [i \in 1..Len(t) |-> LowerChar(t[i])]

\* k in t, for two str
IsSubstring(k, t) ==
    \E i \in 0..(Len(t) - Len(k)) : SubSeq(t, i + 1, i + Len(k)) = k

\* the loop "for keyword in keywords: if keyword.lower() in lowered", from
\* the i-th keyword on: TRUE when some keyword is found
RECURSIVE AnyKeywordFrom(_, _, _)
AnyKeywordFrom(keywords, lowered, i) ==
    IF i > Len(keywords) THEN FALSE
    ELSE IF IsSubstring(LowerText(keywords[i]), lowered) THEN TRUE
    ELSE AnyKeywordFrom(keywords, lowered, i + 1)

\* is_psy_event(text)
is_psy_event(text) ==
    IF text = <<>> THEN FALSE
    ELSE AnyKeywordFrom(ALLOWED_KEYWORDS, LowerText(text), 1)

\* ' '.join(text_parts) of is_psy_event_strict
CombinedText(event_data) ==
    event_data.title \o <<32>> \o event_data.description \o <<32>>
        \o event_data.genre \o <<32>> \o event_data.place

\* is_psy_event_strict in which a text without a deny-list term is accepted
is_psy_event_strict_deny_decides(event_data) ==
    LET combined_text == CombinedText(event_data)
    IN IF is_psy_event(combined_text) THEN TRUE
       ELSE ~AnyKeywordFrom(exclude_keywords, LowerText(combined_text), 1)

\* is_psy_event_strict(event_data)
is_psy_event_strict(event_data) ==
    LET combined_text == CombinedText(event_data)
    IN IF is_psy_event(combined_text) THEN TRUE
       ELSE IF AnyKeywordFrom(exclude_keywords, LowerText(combined_text), 1) THEN FALSE
       ELSE FALSE

(***************************************************************************)
(* The classifier harness: is_psy_event_strict applied to one event.       *)
(***************************************************************************)
\* titles: those of the test at the end of filters.py, one with an allow-list and a
\* deny-list term in upper case, one with neither, one with a kana allow-list term
SampleTitles == {
    <<80, 115, 121, 99, 104, 101, 100, 101, 108, 105, 99, 32, 84, 114, 97, 110, 99, 101, 32, 78, 105, 103, 104, 116>>,  \* 'Psychedelic Trance Night'
    <<74, 45, 80, 79, 80, 32, 78, 105, 103, 104, 116>>,  \* 'J-POP Night'
    <<71, 111, 97, 32, 84, 114, 97, 110, 99, 101, 32, 67, 108, 97, 115, 115, 105, 99, 115>>,  \* 'Goa Trance Classics'
    <<74, 97, 122, 122, 32, 78, 105, 103, 104, 116>>,  \* 'Jazz Night'
    <<80, 83, 89, 32, 82, 79, 67, 75>>,  \* 'PSY ROCK'
    <<78, 105, 103, 104, 116>>,  \* 'Night'
    <<12469, 12452, 12465, 32, 78, 73, 71, 72, 84>>  \* U+30B5 U+30A4 U+30B1 ' NIGHT'
}

\* descriptions of the test, and the empty one
SampleDescriptions == {
    <<80, 114, 111, 103, 114, 101, 115, 115, 105, 118, 101, 32, 112, 115, 121, 116, 114, 97, 110, 99, 101, 32, 101, 118, 101, 110, 116>>,  \* 'Progressive psytrance event'
    <<74, 97, 112, 97, 110, 101, 115, 101, 32, 112, 111, 112, 32, 109, 117, 115, 105, 99, 32, 101, 118, 101, 110, 116>>,  \* 'Japanese pop music event'
    <<83, 109, 111, 111, 116, 104, 32, 106, 97, 122, 122, 32, 101, 118, 101, 110, 105, 110, 103>>,  \* 'Smooth jazz evening'
    <<>>  \* ''
}

\* genres of the test, and the genre of an unclassified event
SampleGenres == {
    <<80, 115, 121, 116, 114, 97, 110, 99, 101>>,  \* 'Psytrance'
    <<74, 45, 80, 111, 112>>,  \* 'J-Pop'
    <<71, 111, 97>>,  \* 'Goa'
    <<74, 97, 122, 122>>,  \* 'Jazz'
    <<85, 110, 107, 110, 111, 119, 110>>  \* 'Unknown'
}

\* places of the test, and the empty one
SamplePlaces == {
    <<87, 79, 77, 66, 44, 32, 84, 111, 107, 121, 111>>,  \* 'WOMB, Tokyo'
    <<75, 97, 114, 97, 111, 107, 101, 32, 66, 97, 114>>,  \* 'Karaoke Bar'
    <<74, 97, 122, 122, 32, 66, 97, 114>>,  \* 'Jazz Bar'
    <<>>  \* ''
}

FilterEvents ==
    [title : SampleTitles, description : SampleDescriptions,
     genre : SampleGenres, place : SamplePlaces]

InitIdleCache ==
    /\ now = 0
    /\ store = [k \in {} |-> None]
    /\ written = [k \in {} |-> None]
    /\ ret = NoRet

InitFilter ==
    /\ fin \in FilterEvents
    /\ fout = FALSE
    /\ fpc = "start"
    /\ InitIdleCache
    /\ InitIdleApi

FilterApply ==
    /\ fpc = "start"
    /\ fout' = is_psy_event_strict(fin)
    /\ fpc' = "done"
    /\ UNCHANGED <<fin, cacheVars, ret, apiVars, threadVars>>

NextFilter == FilterApply

SpecFilter == InitFilter /\ [][NextFilter]_vars

\* the text has the term at some position, letter case ignored
HasTerm(text, term) ==
    \E i \in 0..(Len(text) - Len(term)) :
        \A j \in 1..Len(term) : LowerChar(text[i + j]) = LowerChar(term[j])

HasAllowTerm(e) ==
    \E n \in 1..Len(ALLOWED_KEYWORDS) :
        \/ HasTerm(e.title, ALLOWED_KEYWORDS[n])
        \/ HasTerm(e.description, ALLOWED_KEYWORDS[n])
        \/ HasTerm(e.genre, ALLOWED_KEYWORDS[n])
        \/ HasTerm(e.place, ALLOWED_KEYWORDS[n])

HasDenyTerm(e) ==
    \E n \in 1..Len(exclude_keywords) :
        \/ HasTerm(e.title, exclude_keywords[n])
        \/ HasTerm(e.description, exclude_keywords[n])
        \/ HasTerm(e.genre, exclude_keywords[n])
        \/ HasTerm(e.place, exclude_keywords[n])

\* C10: is_psy_event_strict(event) is true exactly when title, description,
\* genre or place holds an allow-list keyword, letter case ignored; a
\* deny-list term, present or absent, changes nothing.
C10_StrictIffAllowTerm ==
    fpc = "done" => (fout <=> HasAllowTerm(fin))

\* an event with deny-list terms only was rejected
C10_Witness ==
    /\ fpc = "done"
    /\ HasDenyTerm(fin)
    /\ ~HasAllowTerm(fin)
    /\ fout = FALSE

(***************************************************************************)
(* _remove_duplicates: the same code in clubberia_scraper.py,              *)
(* psytrance_scraper.py and major_fests_scraper.py.                        *)
(***************************************************************************)
\* the value None in a list of events
NoneEvent == [none |-> TRUE]

\* the loop body of _remove_duplicates with identifier = event['title']
DedupStepByTitle(acc, event) ==
    IF event = NoneEvent THEN acc
    ELSE LET identifier == <<event.title>>
         IN IF identifier \notin acc.seen
            THEN [seen |-> acc.seen \cup {identifier},
                  unique_events |-> Append(acc.unique_events, event)]
            ELSE acc

\* the loop body of _remove_duplicates: acc holds seen and unique_events
DedupStep(acc, event) ==
    IF event = NoneEvent THEN acc
    ELSE LET identifier == <<event.title, event.date>>
         IN IF identifier \notin acc.seen
            THEN [seen |-> acc.seen \cup {identifier},
                  unique_events |-> Append(acc.unique_events, event)]
            ELSE acc

\* "for event in events", for the events lo..hi of the list: the loop over
\* a range is the loop over its first half, then the loop over its second
RECURSIVE DedupLoop(_, _, _, _)
DedupLoop(events, lo, hi, acc) ==
    IF lo > hi THEN acc
    ELSE IF lo = hi THEN DedupStep(acc, events[lo])
    ELSE LET mid == (lo + hi) \div 2
             first == DedupLoop(events, lo, mid, acc)
         IN \* the first half has run when the second half starts
            IF first = acc THEN DedupLoop(events, mid + 1, hi, acc)
            ELSE DedupLoop(events, mid + 1, hi, first)

\* _remove_duplicates(events)
remove_duplicates(events) ==
    DedupLoop(events, 1, Len(events),
              [seen |-> {}, unique_events |-> <<>>]).unique_events

(***************************************************************************)
(* The deduplication harness: _remove_duplicates applied to a list, then   *)
(* to its own output.                                                      *)
(***************************************************************************)
\* the longest list given to _remove_duplicates
MaxDedupLen == 3

\* the events of the lists: two events can agree in title and date and
\* differ in the rest (here the id); a list can hold None
DedupEvents ==
    [title : {"Astrix presents Goa Classics", "Neelix presents Trance Unity"},
     date : {"2026/01/10", "2026/02/20"},
     id : {1, 2}] \cup {NoneEvent}

DedupInputs == UNION {[1..n -> DedupEvents] : n \in 0..MaxDedupLen}

InitDedup ==
    /\ fin \in DedupInputs
    /\ fout = <<>>
    /\ fpc = "start"
    /\ InitIdleCache
    /\ InitIdleApi

\* unique = self._remove_duplicates(events)
DedupOnce ==
    /\ fpc = "start"
    /\ fout' = <<remove_duplicates(fin)>>
    /\ fpc' = "once"
    /\ UNCHANGED <<fin, cacheVars, ret, apiVars, threadVars>>

\* the Deduplicator run on its own output
DedupTwice ==
    /\ fpc = "once"
    /\ fout' = Append(fout, remove_duplicates(fout[1]))
    /\ fpc' = "twice"
    /\ UNCHANGED <<fin, cacheVars, ret, apiVars, threadVars>>

NextDedup ==
    \/ DedupOnce
    \/ DedupTwice

SpecDedup == InitDedup /\ [][NextDedup]_vars

\* the positions of L holding the first event of their (title, date) pair
FirstOfPair(L) ==
    {i \in 1..Len(L) :
        /\ L[i] # NoneEvent
        /\ \A j \in 1..(i - 1) :
              L[j] = NoneEvent \/ L[j].title # L[i].title \/ L[j].date # L[i].date}

\* out holds the events of L at the positions P, in the order of L
IsSublistAt(out, L, P) ==
    /\ Len(out) = Cardinality(P)
    /\ \A n \in 1..Len(out) :
          \E i \in P : /\ out[n] = L[i]
                       /\ Cardinality({j \in P : j < i}) = n - 1

\* C9: _remove_duplicates(_remove_duplicates(L)) = _remove_duplicates(L),
\* and _remove_duplicates(L) is, in the order of L, exactly the first event
\* of each (title, date) pair of L.
C9_DedupIdempotentFirstSeen ==
    /\ fpc \in {"once", "twice"} => IsSublistAt(fout[1], fin, FirstOfPair(fin))
    /\ fpc = "twice" => fout[2] = fout[1]

\* a list with a repeated pair was deduplicated twice
C9_Witness ==
    /\ fpc = "twice"
    /\ Len(fout[1]) = 2
    /\ Len(fin) = 3
    /\ NoneEvent \notin {fin[i] : i \in 1..Len(fin)}

(***************************************************************************)
(* cache.py: class EventCache, the cache of the API (event_cache).  The    *)
(* handlers of main.py are coroutines that never await, so each handler    *)
(* is one atomic step; every time.time() of one handler reads t.           *)
(***************************************************************************)
\* TTLCache(default_ttl=3600)
DefaultTTL == 3600
\* event_cache.get_events(source="clubberia", ttl=21600)
ClubberiaTTL == 21600

\* self.events_key, self.last_update_key, clubberia_key
EventsKey == "psytrance_events"
LastUpdateKey == "last_update"
ClubberiaKey == "clubberia_events"

\* a Clubberia event as _get_realistic_clubberia_events builds it:
\* 'Astrix presents Goa Classics', 2026/12/05, genre 'Psychedelic Trance'
EvAstrix ==
    [id |-> 5000,
     title |-> <<65, 115, 116, 114, 105, 120, 32, 112, 114, 101, 115, 101, 110, 116, 115, 32, 71, 111, 97, 32, 67, 108, 97, 115, 115, 105, 99, 115>>,
     date |-> <<50, 48, 50, 54, 47, 49, 50, 47, 48, 53>>,
     place |-> <<87, 79, 77, 66, 44, 32, 83, 104, 105, 98, 117, 121, 97>>,
     genre |-> <<80, 115, 121, 99, 104, 101, 100, 101, 108, 105, 99, 32, 84, 114, 97, 110, 99, 101>>,
     description |-> <<65, 110, 32, 117, 110, 102, 111, 114, 103, 101, 116, 116, 97, 98, 108, 101, 32, 110, 105, 103, 104, 116, 32, 111, 102, 32, 103, 111, 97, 32, 99, 108, 97, 115, 115, 105, 99, 115, 33>>]

\* a Clubberia event kept for its detail page, enriched to genre 'House':
\* 'Night', 2026/12/12
EvHouse ==
    [id |-> 4711,
     title |-> <<78, 105, 103, 104, 116>>,
     date |-> <<50, 48, 50, 54, 47, 49, 50, 47, 49, 50>>,
     place |-> <<65, 105, 114, 44, 32, 71, 105, 110, 122, 97>>,
     genre |-> <<72, 111, 117, 115, 101>>,
     description |-> <<69, 118, 101, 110, 116, 58, 32, 78, 105, 103, 104, 116, 32, 97, 116, 32, 65, 105, 114, 44, 32, 71, 105, 110, 122, 97>>]

\* a Clubberia event kept for its detail page, enriched to genre 'Other':
\* 'Sunrise', 2026/12/19
EvOther ==
    [id |-> 4712,
     title |-> <<83, 117, 110, 114, 105, 115, 101>>,
     date |-> <<50, 48, 50, 54, 47, 49, 50, 47, 49, 57>>,
     place |-> <<85, 78, 73, 84, 44, 32, 68, 97, 105, 107, 97, 110, 121, 97, 109, 97>>,
     genre |-> <<79, 116, 104, 101, 114>>,
     description |-> <<69, 118, 101, 110, 116, 58, 32, 83, 117, 110, 114, 105, 115, 101, 32, 97, 116, 32, 85, 78, 73, 84, 44, 32, 68, 97, 105, 107, 97, 110, 121, 97, 109, 97>>]

\* 'Neelix presents Trance Unity', 2026/12/26
EvUnity ==
    [id |-> 5001,
     title |-> <<78, 101, 101, 108, 105, 120, 32, 112, 114, 101, 115, 101, 110, 116, 115, 32, 84, 114, 97, 110, 99, 101, 32, 85, 110, 105, 116, 121>>,
     date |-> <<50, 48, 50, 54, 47, 49, 50, 47, 50, 54>>,
     place |-> <<67, 111, 110, 116, 97, 99, 116, 44, 32, 83, 104, 105, 98, 117, 121, 97>>,
     genre |-> <<80, 115, 121, 99, 104, 101, 100, 101, 108, 105, 99, 32, 84, 114, 97, 110, 99, 101>>,
     description |-> <<65, 110, 32, 117, 110, 102, 111, 114, 103, 101, 116, 116, 97, 98, 108, 101, 32, 110, 105, 103, 104, 116, 32, 111, 102, 32, 116, 114, 97, 110, 99, 101, 32, 117, 110, 105, 116, 121, 33>>]

\* a psytrance event as _get_realistic_psytrance_events builds it:
\* 'Vini Vici - Trance Unity', 2026/11/20
EvVini ==
    [id |-> 4000,
     title |-> <<86, 105, 110, 105, 32, 86, 105, 99, 105, 32, 45, 32, 84, 114, 97, 110, 99, 101, 32, 85, 110, 105, 116, 121>>,
     date |-> <<50, 48, 50, 54, 47, 49, 49, 47, 50, 48>>,
     place |-> <<97, 103, 101, 72, 97, 44, 32, 83, 104, 105, 109, 98, 97, 115, 104, 105, 44, 32, 84, 111, 107, 121, 111>>,
     genre |-> <<84, 114, 97, 110, 99, 101, 32, 80, 115, 121, 116, 114, 97, 110, 99, 101>>,
     description |-> <<69, 120, 112, 101, 114, 105, 101, 110, 99, 101, 32, 116, 104, 101, 32, 112, 115, 121, 99, 104, 101, 100, 101, 108, 105, 99, 32, 106, 111, 117, 114, 110, 101, 121, 33>>]

\* 'Neelix - Hitech Madness', 2026/11/27
EvNeelix ==
    [id |-> 4001,
     title |-> <<78, 101, 101, 108, 105, 120, 32, 45, 32, 72, 105, 116, 101, 99, 104, 32, 77, 97, 100, 110, 101, 115, 115>>,
     date |-> <<50, 48, 50, 54, 47, 49, 49, 47, 50, 55>>,
     place |-> <<67, 111, 110, 116, 97, 99, 116, 44, 32, 83, 104, 105, 98, 117, 121, 97, 44, 32, 84, 111, 107, 121, 111>>,
     genre |-> <<72, 105, 116, 101, 99, 104, 32, 80, 115, 121, 116, 114, 97, 110, 99, 101>>,
     description |-> <<69, 120, 112, 101, 114, 105, 101, 110, 99, 101, 32, 116, 104, 101, 32, 112, 115, 121, 99, 104, 101, 100, 101, 108, 105, 99, 32, 106, 111, 117, 114, 110, 101, 121, 33>>]

\* a festival of _get_major_festivals_mock: 'Ozora Festival 2025', 2025/08/05
EvOzora ==
    [id |-> 900,
     title |-> <<79, 122, 111, 114, 97, 32, 70, 101, 115, 116, 105, 118, 97, 108, 32, 50, 48, 50, 53>>,
     date |-> <<50, 48, 50, 53, 47, 48, 56, 47, 48, 53>>,
     place |-> <<68, 97, 100, 112, 117, 115, 122, 116, 97, 44, 32, 72, 117, 110, 103, 97, 114, 121>>,
     genre |-> <<80, 115, 121, 99, 104, 101, 100, 101, 108, 105, 99, 32, 84, 114, 97, 110, 99, 101, 32, 70, 101, 115, 116, 105, 118, 97, 108>>,
     description |-> <<76, 101, 103, 101, 110, 100, 97, 114, 121, 32, 112, 115, 121, 99, 104, 101, 100, 101, 108, 105, 99, 32, 116, 114, 97, 110, 99, 101, 32, 102, 101, 115, 116, 105, 118, 97, 108>>]

\* a festival parsed from a Songkick answer: 'Boom Festival', 2026/07/22
EvBoom ==
    [id |-> 901,
     title |-> <<66, 111, 111, 109, 32, 70, 101, 115, 116, 105, 118, 97, 108>>,
     date |-> <<50, 48, 50, 54, 47, 48, 55, 47, 50, 50>>,
     place |-> <<73, 100, 97, 110, 104, 97, 45, 97, 45, 78, 111, 118, 97, 44, 32, 80, 111, 114, 116, 117, 103, 97, 108>>,
     genre |-> <<69, 108, 101, 99, 116, 114, 111, 110, 105, 99, 32, 70, 101, 115, 116, 105, 118, 97, 108>>,
     description |-> <<77, 97, 106, 111, 114, 32, 109, 117, 115, 105, 99, 32, 102, 101, 115, 116, 105, 118, 97, 108>>]

\* what a pipeline run hands back: a list of events, or an exception.  The
\* lists below are date-ascending, as every pipeline returns them, and
\* shorter than the real ones: the handlers read only whether a list is
\* empty and, for Clubberia, the texts of its events.
Returned(events) == [raised |-> FALSE, events |-> events]
Raised == [raised |-> TRUE, events |-> <<>>]

\* ClubberScraper().scrape_clubberia(), as EventCache.get_events calls it
ClubberiaOutcomes ==
    {Returned(<<EvAstrix, EvHouse, EvOther>>), Returned(<<EvHouse, EvOther, EvUnity>>), Raised}

\* scraper.scrape_psytrance_events(), as the executor runs it
PsytranceOutcomes ==
    {Returned(<<EvVini, EvNeelix>>), Returned(<<EvNeelix>>), Raised}

\* MajorFestsScraper().scrape_major_festivals(): it returns its mock list
\* on every Exception
MajorOutcomes == {Returned(<<EvOzora>>), Returned(<<EvOzora, EvBoom>>)}

\* "if x:" for the result x of a get: not None and not an empty list
Truthy(r) == r.hit /\ r.value # <<>>

\* datetime.now().isoformat(), as a value of the cache
IsoFormat(t) == <<t>>

\* EventCache.set_events(events)
ECSetEvents(s, events, t) ==
    LET s1 == TTLSet(s, EventsKey, events, EffectiveTTL(DefaultTTL, <<>>), t, t, t)
    IN TTLSet(s1, LastUpdateKey, IsoFormat(t), EffectiveTTL(DefaultTTL, <<>>), t, t, t)

\* EventCache.get_events(source="clubberia", ttl): outcome is what
\* scrape_clubberia does if it is called
ECGetEventsClubberia(s, ttl, t, outcome) ==
    LET valid == TTLHasValidCache(s, ClubberiaKey, t)
        got == IF valid THEN TTLGet(s, ClubberiaKey, t, t)
               ELSE [store |-> s, hit |-> FALSE, value |-> None]
    IN IF valid /\ Truthy(got)
       THEN [store |-> got.store, raised |-> FALSE, events |-> got.value, scraped |-> FALSE]
       ELSE IF outcome.raised
       THEN [store |-> got.store, raised |-> TRUE, events |-> <<>>, scraped |-> TRUE]
       ELSE [store |-> TTLSet(got.store, ClubberiaKey, outcome.events,
                              EffectiveTTL(DefaultTTL, <<ttl>>), t, t, t),
             raised |-> FALSE, events |-> outcome.events, scraped |-> TRUE]

\* EventCache.get_events() with the default source: self.cache.get(events_key)
ECGetEventsDefault(s, t) == TTLGet(s, EventsKey, t, t)

\* EventCache.get_last_update()
ECGetLastUpdate(s, t) == TTLGet(s, LastUpdateKey, t, t)

\* EventCache.clear_events()
ECClearEvents(s) == TTLDelete(TTLDelete(s, EventsKey).store, LastUpdateKey).store

\* EventCache.is_cache_valid()
ECIsCacheValid(s, t) == TTLHasValidCache(s, EventsKey, t)

\* EventCache.get_cache_info(): the read of last_update is a get, which
\* evicts or touches the item
ECGetCacheInfo(s, t) ==
    LET stats == TTLGetStats(s, t)
        last_update == ECGetLastUpdate(s, t)
    IN [store |-> last_update.store,
        info |-> [is_valid |-> ECIsCacheValid(last_update.store, t),
                  has_last_update |-> last_update.hit,
                  cache_stats |-> stats]]

(***************************************************************************)
(* main.py: GET /events.                                                   *)
(***************************************************************************)
Sources == {"clubberia", "major", "psytrance"}
\* source: str = "clubberia"
DefaultSource == "clubberia"
Genres == {"psy", "all"}

\* the methods a scraper class defines
Methods(cls) ==
    CASE cls = "PsytranceScraper" ->
            {"scrape_psytrance_events", "_get_realistic_psytrance_events"}
      [] cls = "MajorFestsScraper" ->
            {"scrape_major_festivals", "_get_major_festivals_mock"}
      [] OTHER -> {}

\* the name scraper if get_events had no assignment to it: the global
GlobalScraper(source) == "PsytranceScraper"

\* the name scraper inside get_events: the assignment in the major branch
\* makes it a local of the whole function, bound only when that branch ran
LocalScraper(source) ==
    IF source = "major" THEN "MajorFestsScraper" ELSE "unbound"

\* scraper.method() can be called: the local is bound and has the method
CanCall(source, method) == method \in Methods(LocalScraper(source))

(***************************************************************************)
(* The Detail Enricher of the Clubberia scraper.                           *)
(***************************************************************************)
\* _enhance_event_with_details(event, detail_soup): page.text is the text of
\* the detail page, page.descs and page.venues the texts of the elements the
\* description and the venue selectors find, in the order of the selectors;
\* raises_at names the step in which an exception is raised ("none": no
\* step).  The result is the event as the except clause leaves it.
enhance_event_with_details(event, page, raises_at) ==
    LET full_text == LowerText(page.text)
        Has(k) == IsSubstring(k, full_text)
        psy == <<112, 115, 121>>
        psychedelic == <<112, 115, 121, 99, 104, 101, 100, 101, 108, 105, 99>>
        goa == <<103, 111, 97>>
        trance == <<116, 114, 97, 110, 99, 101>>
        house == <<104, 111, 117, 115, 101>>
        techno == <<116, 101, 99, 104, 110, 111>>
        disco == <<100, 105, 115, 99, 111>>
        genre ==
            IF Has(psy) \/ Has(psychedelic) \/ Has(goa) \/ Has(trance)
            THEN (IF Has(psychedelic) \/ Has(psy) THEN <<80, 115, 121, 99, 104, 101, 100, 101, 108, 105, 99, 32, 84, 114, 97, 110, 99, 101>>
                  ELSE IF Has(goa) THEN <<71, 111, 97, 32, 84, 114, 97, 110, 99, 101>>
                  ELSE IF Has(trance) THEN <<84, 114, 97, 110, 99, 101>>
                  ELSE <<69, 108, 101, 99, 116, 114, 111, 110, 105, 99>>)
            ELSE IF Has(house) \/ Has(techno) \/ Has(disco)
            THEN (IF Has(house) THEN <<72, 111, 117, 115, 101>>
                  ELSE IF Has(techno) THEN <<84, 101, 99, 104, 110, 111>>
                  ELSE IF Has(disco) THEN <<68, 105, 115, 99, 111>>
                  ELSE <<69, 108, 101, 99, 116, 114, 111, 110, 105, 99>>)
            ELSE <<79, 116, 104, 101, 114>>
        with_genre == [event EXCEPT !.genre = genre]
        longer == {k \in 1..Len(page.descs) :
                      /\ page.descs[k] # <<>>
                      /\ Len(page.descs[k]) > Len(event.description)}
        with_description ==
            IF longer = {} THEN with_genre
            ELSE LET k == CHOOSE x \in longer : \A o \in longer : x <= o
                 IN [with_genre EXCEPT
                        !.description = SubSeq(page.descs[k], 1,
                                               Min(500, Len(page.descs[k])))]
        named == {k \in 1..Len(page.venues) : Len(page.venues[k]) > 2}
        with_place ==
            IF named = {} THEN with_description
            ELSE LET k == CHOOSE x \in named : \A o \in named : x <= o
                 IN [with_description EXCEPT !.place = page.venues[k]]
    IN IF raises_at = "genre" THEN event
       ELSE IF raises_at = "description" THEN with_genre
       ELSE IF raises_at = "place" THEN with_description
       ELSE with_place

\* _fetch_and_filter_event_details(event): the event as the call leaves it
\* and the value returned; page is what the request for the detail page
\* gives (raised: requests.get or the parse raises)
fetch_and_filter_event_details(event, page, raises_at) ==
    LET basic_text == event.title \o <<32>> \o event.description \o <<32>> \o event.genre
        detail_url == event.url
    IN IF is_psy_event(basic_text) THEN [event |-> event, accepted |-> TRUE]
       ELSE IF \/ detail_url = <<>> \/ detail_url = <<35>>
               \/ ~IsSubstring(<<101, 118, 101, 110, 116, 115>>, detail_url)
       THEN [event |-> event, accepted |-> FALSE]
       ELSE IF page.raised THEN [event |-> event, accepted |-> is_psy_event(basic_text)]
       ELSE IF page.status_code # 200 THEN [event |-> event, accepted |-> FALSE]
       ELSE IF is_psy_event(page.text)
       THEN [event |-> enhance_event_with_details(event, page, raises_at),
             accepted |-> TRUE]
       ELSE [event |-> event, accepted |-> FALSE]

\* events as _parse_event_container builds them: 'Psy Night' at 'WOMB',
\* 'Club Night' at 'Contact', and 'Club Night' whose link is '#'
ListedEvents ==
    {[id |-> 100001,
     title |-> <<80, 115, 121, 32, 78, 105, 103, 104, 116>>,
     date |-> <<50, 48, 50, 54, 47, 49, 50, 47, 49, 50>>,
     place |-> <<87, 79, 77, 66>>,
     url |-> <<104, 116, 116, 112, 115, 58, 47, 47, 99, 108, 117, 98, 98, 101, 114, 105, 97, 46, 99, 111, 109, 47, 106, 97, 47, 101, 118, 101, 110, 116, 115, 47, 49>>,
     image |-> <<97, 46, 106, 112, 103>>,
     genre |-> <<85, 110, 107, 110, 111, 119, 110>>,
     description |-> <<69, 118, 101, 110, 116, 58, 32, 80, 115, 121, 32, 78, 105, 103, 104, 116, 32, 97, 116, 32, 87, 79, 77, 66>>],
     [id |-> 100002,
     title |-> <<67, 108, 117, 98, 32, 78, 105, 103, 104, 116>>,
     date |-> <<50, 48, 50, 54, 47, 49, 50, 47, 49, 50>>,
     place |-> <<67, 111, 110, 116, 97, 99, 116>>,
     url |-> <<104, 116, 116, 112, 115, 58, 47, 47, 99, 108, 117, 98, 98, 101, 114, 105, 97, 46, 99, 111, 109, 47, 106, 97, 47, 101, 118, 101, 110, 116, 115, 47, 50>>,
     image |-> <<97, 46, 106, 112, 103>>,
     genre |-> <<85, 110, 107, 110, 111, 119, 110>>,
     description |-> <<69, 118, 101, 110, 116, 58, 32, 67, 108, 117, 98, 32, 78, 105, 103, 104, 116, 32, 97, 116, 32, 67, 111, 110, 116, 97, 99, 116>>],
     [id |-> 100003,
     title |-> <<67, 108, 117, 98, 32, 78, 105, 103, 104, 116>>,
     date |-> <<50, 48, 50, 54, 47, 49, 50, 47, 49, 50>>,
     place |-> <<67, 111, 110, 116, 97, 99, 116>>,
     url |-> <<35>>,
     image |-> <<97, 46, 106, 112, 103>>,
     genre |-> <<85, 110, 107, 110, 111, 119, 110>>,
     description |-> <<69, 118, 101, 110, 116, 58, 32, 67, 108, 117, 98, 32, 78, 105, 103, 104, 116, 32, 97, 116, 32, 67, 111, 110, 116, 97, 99, 116>>]}

\* detail pages: the request raises; status 404; 'Goa Trance all night long
\* at Contact' with venue 'Contact Tokyo'; 'Minimal techno session';
\* 'House music'; 'Ambient forest gathering with live acts' with venue 'Mt'
DetailPages ==
    {[raised |-> TRUE, status_code |-> 0,
     text |-> <<>>,
     descs |-> <<>>,
     venues |-> <<>>],
     [raised |-> FALSE, status_code |-> 404,
     text |-> <<78, 111, 116, 32, 70, 111, 117, 110, 100>>,
     descs |-> <<>>,
     venues |-> <<>>],
     [raised |-> FALSE, status_code |-> 200,
     text |-> <<71, 111, 97, 32, 84, 114, 97, 110, 99, 101, 32, 97, 108, 108, 32, 110, 105, 103, 104, 116, 32, 108, 111, 110, 103, 32, 97, 116, 32, 67, 111, 110, 116, 97, 99, 116>>,
     descs |-> <<<<71, 111, 97, 32, 84, 114, 97, 110, 99, 101, 32, 97, 108, 108, 32, 110, 105, 103, 104, 116, 32, 108, 111, 110, 103, 32, 97, 116, 32, 67, 111, 110, 116, 97, 99, 116>>>>,
     venues |-> <<<<67, 111, 110, 116, 97, 99, 116, 32, 84, 111, 107, 121, 111>>>>],
     [raised |-> FALSE, status_code |-> 200,
     text |-> <<77, 105, 110, 105, 109, 97, 108, 32, 116, 101, 99, 104, 110, 111, 32, 115, 101, 115, 115, 105, 111, 110>>,
     descs |-> <<<<77, 105, 110, 105, 109, 97, 108, 32, 116, 101, 99, 104, 110, 111, 32, 115, 101, 115, 115, 105, 111, 110>>>>,
     venues |-> <<>>],
     [raised |-> FALSE, status_code |-> 200,
     text |-> <<72, 111, 117, 115, 101, 32, 109, 117, 115, 105, 99>>,
     descs |-> <<<<72, 111, 117, 115, 101, 32, 109, 117, 115, 105, 99>>>>,
     venues |-> <<>>],
     [raised |-> FALSE, status_code |-> 200,
     text |-> <<65, 109, 98, 105, 101, 110, 116, 32, 102, 111, 114, 101, 115, 116, 32, 103, 97, 116, 104, 101, 114, 105, 110, 103, 32, 119, 105, 116, 104, 32, 108, 105, 118, 101, 32, 97, 99, 116, 115>>,
     descs |-> <<<<>>, <<65, 109, 98, 105, 101, 110, 116, 32, 102, 111, 114, 101, 115, 116, 32, 103, 97, 116, 104, 101, 114, 105, 110, 103, 32, 119, 105, 116, 104, 32, 108, 105, 118, 101, 32, 97, 99, 116, 115>>>>,
     venues |-> <<<<77, 116>>>>]}

\* the step of _enhance_event_with_details that raises
RaisePoints == {"none", "genre", "description", "place"}

\* the events the Clubberia pipeline of this model returns
ClubberiaEvents == {EvAstrix, EvHouse, EvOther, EvUnity}

\* is_psy_event_strict on each of them, evaluated once
StrictVerdict == [e \in ClubberiaEvents |-> is_psy_event_strict(e)]

\* is_psy_event_strict(e), looked up for the events of ClubberiaEvents
IsStrict(e) ==
    IF e \in ClubberiaEvents THEN StrictVerdict[e] ELSE is_psy_event_strict(e)

\* filter_psy_events(events)
filter_psy_events(events) ==
    LET Test(e) == IsStrict(e) IN SelectSeq(events, Test)

\* the second pass of the clubberia branch: an event of genre 'unknown' or
\* 'other' stays only if is_psy_event_strict accepts it
SecondPass(events) ==
    LET Test(e) == ~(/\ LowerText(e.genre) \in {<<117, 110, 107, 110, 111, 119, 110>>,
                                                <<111, 116, 104, 101, 114>>}
                     /\ ~IsStrict(e))
    IN SelectSeq(events, Test)

\* the genre filter of the clubberia branch
GenreFilter(genre, events) ==
    IF genre = "psy" THEN SecondPass(filter_psy_events(events)) ELSE events

\* the try block, source == "major"
MajorBody(s, outcome) ==
    [store |-> s, raised |-> FALSE, label |-> "major_festivals",
     events |-> outcome.events, add_task |-> FALSE, ran |-> TRUE]

\* the try block, source == "clubberia"
ClubberiaBody(s, t, genre, outcome) ==
    LET r == ECGetEventsClubberia(s, ClubberiaTTL, t, outcome)
    IN [store |-> r.store, raised |-> r.raised, label |-> "clubberia",
        events |-> IF r.raised THEN <<>> ELSE GenreFilter(genre, r.events),
        add_task |-> FALSE, ran |-> r.scraped]

\* the try block, any other source: the cached psytrance events
PsytranceBody(s, t, scraping, source, force_refresh, outcome) ==
    IF ~force_refresh /\ ECIsCacheValid(s, t)
    THEN LET got == ECGetEventsDefault(s, t)
             info == ECGetCacheInfo(got.store, t)
         IN [store |-> info.store, raised |-> ~got.hit, label |-> "cache",
             events |-> got.value, add_task |-> FALSE, ran |-> FALSE]
    ELSE LET add_task == ~scraping
             got == ECGetEventsDefault(s, t)
         IN IF Truthy(got)
            THEN [store |-> ECGetCacheInfo(got.store, t).store, raised |-> FALSE,
                  label |-> "cache_expired", events |-> got.value,
                  add_task |-> add_task, ran |-> FALSE]
            ELSE IF ~CanCall(source, "scrape_psytrance_events") \/ outcome.raised
            THEN [store |-> got.store, raised |-> TRUE, label |-> "",
                  events |-> <<>>, add_task |-> add_task,
                  ran |-> CanCall(source, "scrape_psytrance_events")]
            ELSE [store |-> ECGetCacheInfo(ECSetEvents(got.store, outcome.events, t), t).store,
                  raised |-> FALSE, label |-> "fresh_scrape",
                  events |-> outcome.events, add_task |-> add_task, ran |-> TRUE]

\* the try block of get_events
TryBody(s, t, scraping, source, genre, force_refresh, outcome) ==
    IF source = "major" THEN MajorBody(s, outcome)
    ELSE IF source = "clubberia" THEN ClubberiaBody(s, t, genre, outcome)
    ELSE PsytranceBody(s, t, scraping, source, force_refresh, outcome)

\* get_events, with general_exception_handler for what it lets through.
\* A handler that raises hands FastAPI no response to attach its
\* background tasks to: scheduled is add_task of a handler that returned.
HandleGetEvents(s, t, scraping, source, genre, force_refresh, outcome) ==
    LET body == TryBody(s, t, scraping, source, genre, force_refresh, outcome)
    IN IF ~body.raised
       THEN [store |-> body.store, status |-> 200, success |-> TRUE,
             label |-> body.label, events |-> body.events,
             scheduled |-> body.add_task, ran |-> body.ran, raised |-> FALSE]
       ELSE LET cached == ECGetEventsDefault(body.store, t)
            IN IF Truthy(cached)
               THEN [store |-> cached.store, status |-> 200, success |-> TRUE,
                     label |-> "cache_fallback", events |-> cached.value,
                     scheduled |-> body.add_task, ran |-> body.ran, raised |-> TRUE]
               ELSE IF CanCall(source, "_get_mock_events")
               THEN [store |-> cached.store, status |-> 200, success |-> TRUE,
                     label |-> "mock_fallback", events |-> <<>>,
                     scheduled |-> body.add_task, ran |-> body.ran, raised |-> TRUE]
               ELSE [store |-> cached.store, status |-> 500, success |-> FALSE,
                     label |-> "Internal server error", events |-> <<>>,
                     scheduled |-> FALSE, ran |-> body.ran, raised |-> TRUE]

(***************************************************************************)
(* main.py: the process.  startup_event awaits the first refresh before    *)
(* any request is served; after it, requests, background tasks and the     *)
(* clock interleave.  scrape_and_cache_events gives up control once, at    *)
(* its await: it is two steps, the start and the return of the executor.   *)
(***************************************************************************)
\* the clock of the API advances in steps of this many seconds
TickSeconds == 21600
\* ... and stops after this many steps
MaxTicks == 2
\* the background tasks that can wait to start
MaxQueued == 2

\* scrape_and_cache_events that does not look at is_scraping
RefreshDecisionUnguarded(scraping) == "run"

\* scrape_and_cache_events: "if is_scraping: return"
RefreshDecision(scraping) == IF scraping THEN "skip" ELSE "run"

\* the cache key that holds the events of a source; the major festivals
\* have none
KeyOf(source) ==
    IF source = "clubberia" THEN ClubberiaKey
    ELSE IF source = "major" THEN "" ELSE EventsKey

\* Absent, Valid or Expired: the state of a source's item at time t
PreState(s, source, t) ==
    IF source = "major" THEN "uncached"
    ELSE IF KeyOf(source) \notin DOMAIN s THEN "absent"
    ELSE IF t > s[KeyOf(source)].expires_at THEN "expired"
    ELSE "valid"

\* the events cached for a source, expired or not
CachedEvents(s, source) ==
    IF KeyOf(source) \in DOMAIN s THEN s[KeyOf(source)].value ELSE <<>>

\* what the pipeline of a source can do when get_events calls it
OutcomesFor(source) ==
    IF source = "major" THEN MajorOutcomes
    ELSE IF source = "clubberia" THEN ClubberiaOutcomes
    ELSE PsytranceOutcomes

\* the values of genre that reach the code of a source: only the clubberia
\* branch reads genre
GenresFor(source) == IF source = "clubberia" THEN Genres ELSE {"psy"}

\* the values of force_refresh that reach the code of a source: the major
\* and clubberia branches return before it is read
ForceFor(source) == IF source \in {"clubberia", "major"} THEN {FALSE} ELSE BOOLEAN

InitApi ==
    /\ now = 0
    /\ store = [k \in {} |-> None]
    /\ written = [k \in {} |-> None]
    /\ ret = NoRet
    /\ is_scraping = FALSE
    /\ queued = 0
    /\ running = 0
    /\ startup = "pending"
    /\ task = "none"
    /\ InitIdleFn
    /\ InitIdleThreads

\* startup_event: await scrape_and_cache_events(), up to its await
StartupBegin ==
    /\ startup = "pending"
    /\ IF RefreshDecision(is_scraping) = "run"
       THEN /\ is_scraping' = TRUE
            /\ running' = running + 1
            /\ startup' = "running"
            /\ task' = "started"
       ELSE /\ startup' = "done"
            /\ task' = "dropped"
            /\ UNCHANGED <<is_scraping, running>>
    /\ UNCHANGED <<cacheVars, ret, queued, fnVars, threadVars>>

\* a background task starts: scrape_and_cache_events up to its await
TaskStart ==
    /\ queued > 0
    /\ queued' = queued - 1
    /\ IF RefreshDecision(is_scraping) = "run"
       THEN /\ is_scraping' = TRUE
            /\ running' = running + 1
            /\ task' = "started"
       ELSE /\ task' = "dropped"
            /\ UNCHANGED <<is_scraping, running>>
    /\ ret' = NoRet
    /\ UNCHANGED <<cacheVars, startup, fnVars, threadVars>>

\* the executor returns the events: set_events, then the finally clause
RefreshDone ==
    /\ running > 0
    /\ \E outcome \in PsytranceOutcomes :
          /\ ~outcome.raised
          /\ store' = ECSetEvents(store, outcome.events, now)
    /\ is_scraping' = FALSE
    /\ running' = running - 1
    /\ startup' = IF startup = "running" THEN "done" ELSE startup
    /\ task' = "done"
    /\ ret' = NoRet
    /\ UNCHANGED <<now, written, queued, fnVars, threadVars>>

\* the awaited call raises and no finally clause resets the flag
RefreshFailedKeepsFlag ==
    /\ running > 0
    /\ Raised \in PsytranceOutcomes
    /\ running' = running - 1
    /\ startup' = IF startup = "running" THEN "done" ELSE startup
    /\ task' = "failed"
    /\ ret' = NoRet
    /\ UNCHANGED <<cacheVars, is_scraping, queued, fnVars, threadVars>>

\* the awaited call raises: the except clause, then the finally clause
RefreshFailed ==
    /\ running > 0
    /\ Raised \in PsytranceOutcomes
    /\ is_scraping' = FALSE
    /\ running' = running - 1
    /\ startup' = IF startup = "running" THEN "done" ELSE startup
    /\ task' = "failed"
    /\ ret' = NoRet
    /\ UNCHANGED <<cacheVars, queued, fnVars, threadVars>>

\* GET /events?source=&genre=&force_refresh=
GetEvents ==
    /\ startup = "done"
    /\ \E source \in Sources :
       \E genre \in GenresFor(source), force_refresh \in ForceFor(source),
          outcome \in OutcomesFor(source) :
          LET h == HandleGetEvents(store, now, is_scraping, source, genre,
                                   force_refresh, outcome)
          IN \* a request that calls no pipeline is taken once, not once
             \* per outcome
             /\ h.ran \/ outcome = Raised \/ source = "major"
             /\ h.scheduled => queued < MaxQueued
             /\ store' = h.store
             /\ queued' = IF h.scheduled THEN queued + 1 ELSE queued
             /\ ret' = [op |-> "get_events", source |-> source, genre |-> genre,
                        force |-> force_refresh, aged |-> FALSE,
                        pre |-> PreState(store, source, now),
                        stale |-> /\ PreState(store, source, now) = "expired"
                                  /\ h.status = 200
                                  /\ h.events = CachedEvents(store, source),
                        inflight |-> is_scraping, after |-> task,
                        status |-> h.status, success |-> h.success,
                        label |-> h.label, events |-> h.events,
                        scheduled |-> h.scheduled, ran |-> h.ran,
                        raised |-> h.raised,
                        valid_after |-> PreState(h.store, source, now) = "valid"]
    /\ UNCHANGED <<now, written, is_scraping, running, startup, task, fnVars, threadVars>>

\* POST /events/refresh
RefreshEvents ==
    /\ startup = "done"
    /\ queued < MaxQueued
    /\ queued' = queued + 1
    /\ ret' = NoRet
    /\ UNCHANGED <<cacheVars, is_scraping, running, startup, task, fnVars, threadVars>>

\* GET /cache/info
GetCacheInfo ==
    /\ startup = "done"
    /\ store' = ECGetCacheInfo(store, now).store
    /\ ret' = NoRet
    /\ UNCHANGED <<now, written, apiVars, fnVars, threadVars>>

\* DELETE /cache; ret keeps the state in which it leaves the item of the
\* default source
ClearCache ==
    /\ startup = "done"
    /\ store' = ECClearEvents(store)
    /\ ret' = [op |-> "clear_cache",
               left |-> PreState(ECClearEvents(store), DefaultSource, now)]
    /\ UNCHANGED <<now, written, apiVars, fnVars, threadVars>>

\* GET /health
HealthCheck ==
    /\ startup = "done"
    /\ store' = ECGetEventsDefault(store, now).store
    /\ ret' = NoRet
    /\ UNCHANGED <<now, written, apiVars, fnVars, threadVars>>

\* time passes
ApiTick ==
    /\ now < MaxTicks * TickSeconds
    /\ now' = now + TickSeconds
    /\ ret' = IF ret.op = "get_events" THEN [ret EXCEPT !.aged = TRUE] ELSE ret
    /\ UNCHANGED <<store, written, apiVars, fnVars, threadVars>>

Next ==
    \/ StartupBegin
    \/ TaskStart
    \/ RefreshDone
    \/ RefreshFailed
    \/ GetEvents
    \/ RefreshEvents
    \/ GetCacheInfo
    \/ ClearCache
    \/ HealthCheck
    \/ ApiTick

Init == InitApi

Spec == Init /\ [][Next]_vars

(***************************************************************************)
(* Claims about the API, under Spec.  ret describes the last GET /events:  *)
(* pre is the state of the source's item when the request arrived, stale   *)
(* says that the answer is the list of an expired item, after is the       *)
(* outcome of the last background refresh before the request.              *)
(***************************************************************************)
\* C2: a GET /events that finds the item of its source expired answers with
\* the stale list, runs no pipeline inside the request, and a background
\* refresh is scheduled (or one is already in flight).
C2_ExpiredServedStale ==
    (ret.op = "get_events" /\ ret.pre = "expired") =>
        /\ ret.stale
        /\ ~ret.ran
        /\ ret.scheduled \/ ret.inflight

\* C3: at most one refresh runs the pipeline at any time; a refresh that
\* starts while is_scraping is true returns without running the pipeline
\* and is gone from the queue.
C3_SingleFlight ==
    [][/\ running' <= 1
       /\ (is_scraping /\ queued' < queued) =>
             /\ running' = running
             /\ is_scraping'
             /\ queued' = queued - 1
             /\ task' = "dropped"]_vars

\* a trigger was dropped while a refresh is in flight
C3_Witness == task = "dropped" /\ running = 1 /\ is_scraping

\* C4: a GET /events for the psytrance source that finds no item at all
\* runs the pipeline in the request, stores the result and answers with it,
\* success=true.
C4_AbsentScrapedInRequest ==
    (ret.op = "get_events" /\ ret.source = "psytrance" /\ ret.pre = "absent") =>
        /\ ret.ran
        /\ ret.status = 200 /\ ret.success
        /\ ret.label = "fresh_scrape"
        /\ ret.valid_after

\* C5: GET /events never answers 5xx: for every source and cache state the
\* answer is success=true.
C5_NeverServerError ==
    ret.op = "get_events" => (ret.status < 500 /\ ret.success)

\* C6: after a background refresh failed, a GET /events for the source it
\* refreshes answers with the list cached before, expired or not; it
\* answers with an error or synthesized events only if nothing is cached.
C6_FailedRefreshServesCached ==
    (/\ ret.op = "get_events" /\ ret.source = "psytrance"
     /\ ret.after = "failed" /\ ret.pre \in {"valid", "expired"}) =>
        /\ ret.status = 200
        /\ ret.label \in {"cache", "cache_expired", "cache_fallback"}
        /\ ret.pre = "expired" => ret.stale

\* both requests fall into one TTL window of the source's item; a source
\* without an item has no window, and then no time passes between them
SameWindow(first, second) ==
    IF first.pre = "uncached" THEN ~first.aged
    ELSE first.valid_after /\ second.pre = "valid"

\* C7: two consecutive GET /events with the same source and genre and
\* force_refresh=false, within the TTL window and with nothing but time
\* between them, answer with identical event lists.
C7_ConsecutiveGetsIdentical ==
    [][(/\ ret.op = "get_events" /\ ret'.op = "get_events"
        /\ now' = now
        /\ ret'.source = ret.source /\ ret'.genre = ret.genre
        /\ ~ret.force /\ ~ret'.force
        /\ SameWindow(ret, ret')) =>
           ret'.events = ret.events]_vars

(***************************************************************************)
(* The pipelines: scrape_clubberia, scrape_psytrance_events and            *)
(* scrape_major_festivals, from the events their fetch loops collected to  *)
(* the list they return.  The answers of the remote sites and the draws    *)
(* of random are inputs of a run.  An event carries the fields the         *)
(* pipelines read: id, title, date (artist_count and capacity for a        *)
(* festival).                                                              *)
(***************************************************************************)
\* datetime.now() of a run: 2026/11/05, some time after midnight
Today == [year |-> 2026, month |-> 11, day |-> 5]

\* the calendar of datetime
IsLeap(y) == (y % 4 = 0 /\ y % 100 # 0) \/ y % 400 = 0

DaysInMonth(y, m) ==
    IF m = 2 THEN (IF IsLeap(y) THEN 29 ELSE 28)
    ELSE IF m \in {4, 6, 9, 11} THEN 30 ELSE 31

RECURSIVE DaysBeforeMonth(_, _)
DaysBeforeMonth(y, m) ==
    IF m = 1 THEN 0 ELSE DaysBeforeMonth(y, m - 1) + DaysInMonth(y, m - 1)

DaysBeforeYear(y) ==
    LET p == y - 1 IN p * 365 + p \div 4 - p \div 100 + p \div 400

\* date.toordinal()
ToOrdinal(d) == DaysBeforeYear(d.year) + DaysBeforeMonth(d.year, d.month) + d.day

\* date.fromordinal(n), for the years around Today
FromOrdinal(n) ==
    LET y == CHOOSE yy \in (Today.year - 2)..(Today.year + 2) :
                 DaysBeforeYear(yy) < n /\ n <= DaysBeforeYear(yy + 1)
        rest == n - DaysBeforeYear(y)
        m == CHOOSE mm \in 1..12 :
                 /\ DaysBeforeMonth(y, mm) < rest
                 /\ rest <= DaysBeforeMonth(y, mm) + DaysInMonth(y, mm)
    IN [year |-> y, month |-> m, day |-> rest - DaysBeforeMonth(y, m)]

\* the character of one decimal digit
Digit(n) == 48 + n

\* strftime("%Y/%m/%d")
Strftime(d) ==
    <<Digit(d.year \div 1000), Digit((d.year \div 100) % 10),
      Digit((d.year \div 10) % 10), Digit(d.year % 10), 47,
      Digit(d.month \div 10), Digit(d.month % 10), 47,
      Digit(d.day \div 10), Digit(d.day % 10)>>

IsDigits(t) == \A i \in 1..Len(t) : t[i] \in 48..57

RECURSIVE Number(_)
Number(t) ==
    IF t = <<>> THEN 0
    ELSE Number(SubSeq(t, 1, Len(t) - 1)) * 10 + (t[Len(t)] - 48)

\* datetime.strptime(t, "%Y/%m/%d"): four digits of year, a month written
\* 1-12 or 01-12, a day written 1-31, 01-31 or with a space for the zero,
\* nothing before or after, and the day exists; ok is FALSE for ValueError
Strptime(t) ==
    LET n == Len(t)
        slashes == {i \in 1..n : t[i] = 47}
        bad == [ok |-> FALSE, date |-> Today]
    IN IF Cardinality(slashes) # 2 \/ 5 \notin slashes THEN bad
       ELSE LET s2 == CHOOSE i \in slashes : i # 5
                ytxt == SubSeq(t, 1, 4)
                mtxt == SubSeq(t, 6, s2 - 1)
                dtxt0 == SubSeq(t, s2 + 1, n)
                dtxt == IF Len(dtxt0) = 2 /\ dtxt0[1] = 32
                        THEN SubSeq(dtxt0, 2, 2) ELSE dtxt0
            IN IF \/ ~IsDigits(ytxt) \/ ~IsDigits(mtxt) \/ ~IsDigits(dtxt)
                  \/ Len(mtxt) \notin 1..2 \/ Len(dtxt0) \notin 1..2
                  \/ dtxt = <<>>
               THEN bad
               ELSE LET y == Number(ytxt)
                        m == Number(mtxt)
                        d == Number(dtxt)
                    IN IF /\ y >= 1 /\ m \in 1..12 /\ d >= 1
                          /\ d <= DaysInMonth(y, m)
                       THEN [ok |-> TRUE, date |-> [year |-> y, month |-> m, day |-> d]]
                       ELSE bad

\* _get_future_date() when random.randint draws future_days
get_future_date(future_days) ==
    Strftime(FromOrdinal(ToOrdinal(Today) + future_days))

\* _parse_date_for_sort(date_str), as a pair that orders like the datetime:
\* the day, then 0 for midnight and 1 for the time of day of now()
parse_date_for_sort(date_str) ==
    LET p == Strptime(date_str)
    IN IF p.ok THEN <<ToOrdinal(p.date), 0>>
       ELSE <<ToOrdinal(Today) + 365, 1>>

\* a <= b for two such pairs
KeyLeq(a, b) == a[1] < b[1] \/ (a[1] = b[1] /\ a[2] <= b[2])

\* sorted(events, key=lambda x: self._parse_date_for_sort(x['date'])):
\* the sort is stable.  InsertPos is the number of events of sorted, among
\* its first hi, that stay before an event with this key: those whose key
\* is not greater (the first lo of them are known to be such)
RECURSIVE InsertPos(_, _, _, _)
InsertPos(sorted, key, lo, hi) ==
    IF lo >= hi THEN lo
    ELSE LET mid == (lo + hi + 1) \div 2
         IN IF KeyLeq(parse_date_for_sort(sorted[mid].date), key)
            THEN InsertPos(sorted, key, mid, hi)
            ELSE InsertPos(sorted, key, lo, mid - 1)

InsertByDate(sorted, e) ==
    LET p == InsertPos(sorted, parse_date_for_sort(e.date), 0, Len(sorted))
    IN SubSeq(sorted, 1, p) \o <<e>> \o SubSeq(sorted, p + 1, Len(sorted))

\* the events lo..hi of the list, each put in its place in turn
RECURSIVE SortLoop(_, _, _, _)
SortLoop(events, lo, hi, sorted) ==
    IF lo > hi THEN sorted
    ELSE IF lo = hi THEN InsertByDate(sorted, events[lo])
    ELSE LET mid == (lo + hi) \div 2
             first == SortLoop(events, lo, mid, sorted)
         IN \* the first half is in place when the second half starts
            IF first = sorted THEN sorted
            ELSE SortLoop(events, mid + 1, hi, first)

SortByDate(events) == SortLoop(events, 1, Len(events), <<>>)

\* _filter_future_events(events): an event whose date does not parse stays
filter_future_events(events) ==
    LET Test(e) == LET p == Strptime(e.date)
                   IN ~p.ok \/ ToOrdinal(p.date) >= ToOrdinal(Today)
    IN SelectSeq(events, Test)

\* events[:n]
Take(events, n) == SubSeq(events, 1, Min(n, Len(events)))

\* artists of _get_realistic_clubberia_events
ClubberiaArtists == <<
    <<65, 115, 116, 114, 105, 120>>,  \* 'Astrix'
    <<86, 105, 110, 105, 32, 86, 105, 99, 105>>,  \* 'Vini Vici'
    <<67, 97, 112, 116, 97, 105, 110, 32, 72, 111, 111, 107>>,  \* 'Captain Hook'
    <<65, 118, 97, 108, 111, 110>>,  \* 'Avalon'
    <<78, 101, 101, 108, 105, 120>>,  \* 'Neelix'
    <<76, 105, 113, 117, 105, 100, 32, 83, 111, 117, 108>>,  \* 'Liquid Soul'
    <<73, 110, 116, 101, 114, 97, 99, 116, 105, 118, 101, 32, 78, 111, 105, 115, 101>>,  \* 'Interactive Noise'
    <<70, 114, 101, 101, 100, 111, 109, 32, 70, 105, 103, 104, 116, 101, 114, 115>>,  \* 'Freedom Fighters'
    <<67, 111, 109, 105, 110, 103, 32, 83, 111, 111, 110>>,  \* 'Coming Soon'
    <<73, 110, 102, 101, 99, 116, 101, 100, 32, 77, 117, 115, 104, 114, 111, 111, 109>>,  \* 'Infected Mushroom'
    <<65, 99, 101, 32, 86, 101, 110, 116, 117, 114, 97>>,  \* 'Ace Ventura'
    <<83, 121, 109, 98, 111, 108, 105, 99>>,  \* 'Symbolic'
    <<86, 101, 114, 116, 105, 99, 97, 108, 32, 77, 111, 100, 101>>,  \* 'Vertical Mode'
    <<71, 104, 111, 115, 116, 32, 82, 105, 100, 101, 114>>,  \* 'Ghost Rider'
    <<80, 101, 114, 102, 101, 99, 116, 32, 83, 116, 114, 97, 110, 103, 101, 114>>  \* 'Perfect Stranger'
>>

\* event_types of _get_realistic_clubberia_events
ClubberiaEventTypes == <<
    <<80, 115, 121, 99, 104, 101, 100, 101, 108, 105, 99, 32, 74, 111, 117, 114, 110, 101, 121>>,  \* 'Psychedelic Journey'
    <<80, 114, 111, 103, 114, 101, 115, 115, 105, 118, 101, 32, 78, 105, 103, 104, 116>>,  \* 'Progressive Night'
    <<71, 111, 97, 32, 67, 108, 97, 115, 115, 105, 99, 115>>,  \* 'Goa Classics'
    <<70, 111, 114, 101, 115, 116, 32, 71, 97, 116, 104, 101, 114, 105, 110, 103>>,  \* 'Forest Gathering'
    <<70, 117, 108, 108, 45, 79, 110, 32, 69, 120, 112, 101, 114, 105, 101, 110, 99, 101>>,  \* 'Full-On Experience'
    <<72, 105, 116, 101, 99, 104, 32, 77, 97, 100, 110, 101, 115, 115>>,  \* 'Hitech Madness'
    <<84, 114, 97, 110, 99, 101, 32, 85, 110, 105, 116, 121>>,  \* 'Trance Unity'
    <<80, 115, 121, 99, 104, 101, 100, 101, 108, 105, 99, 32, 65, 100, 118, 101, 110, 116, 117, 114, 101>>  \* 'Psychedelic Adventure'
>>

\* real_artists of _get_realistic_psytrance_events
PsytranceArtists == <<
    <<65, 77, 65, 75, 85, 83, 65>>,  \* 'AMAKUSA'
    <<71, 111, 116, 97, 108, 105, 101, 110>>,  \* 'Gotalien'
    <<69, 97, 114, 116, 104, 115, 112, 97, 99, 101>>,  \* 'Earthspace'
    <<65, 122, 97, 120, 32, 83, 121, 110, 100, 114, 111, 109>>,  \* 'Azax Syndrom'
    <<72, 121, 112, 110, 111, 116, 105, 99, 32, 79, 114, 105, 101, 110, 116, 97, 108, 32, 69, 120, 112, 114, 101, 115, 115>>,  \* 'Hypnotic Oriental Express'
    <<72, 105, 108, 105, 103, 104, 116, 32, 84, 114, 105, 98, 101>>,  \* 'Hilight Tribe'
    <<86, 105, 110, 105, 32, 86, 105, 99, 105>>,  \* 'Vini Vici'
    <<65, 115, 116, 114, 105, 120>>,  \* 'Astrix'
    <<67, 97, 112, 116, 97, 105, 110, 32, 72, 111, 111, 107>>,  \* 'Captain Hook'
    <<65, 118, 97, 108, 111, 110>>,  \* 'Avalon'
    <<78, 101, 101, 108, 105, 120>>,  \* 'Neelix'
    <<76, 105, 113, 117, 105, 100, 32, 83, 111, 117, 108>>,  \* 'Liquid Soul'
    <<67, 111, 109, 105, 110, 103, 32, 83, 111, 111, 110>>,  \* 'Coming Soon'
    <<70, 114, 101, 101, 100, 111, 109, 32, 70, 105, 103, 104, 116, 101, 114, 115>>,  \* 'Freedom Fighters'
    <<73, 110, 116, 101, 114, 97, 99, 116, 105, 118, 101, 32, 78, 111, 105, 115, 101>>  \* 'Interactive Noise'
>>

\* event_types of _get_realistic_psytrance_events
PsytranceEventTypes == <<
    <<80, 114, 111, 103, 114, 101, 115, 115, 105, 118, 101, 32, 80, 115, 121, 116, 114, 97, 110, 99, 101, 32, 78, 105, 103, 104, 116>>,  \* 'Progressive Psytrance Night'
    <<71, 111, 97, 32, 84, 114, 97, 110, 99, 101, 32, 67, 108, 97, 115, 115, 105, 99, 32, 83, 101, 115, 115, 105, 111, 110>>,  \* 'Goa Trance Classic Session'
    <<70, 111, 114, 101, 115, 116, 32, 80, 115, 121, 116, 114, 97, 110, 99, 101, 32, 74, 111, 117, 114, 110, 101, 121>>,  \* 'Forest Psytrance Journey'
    <<70, 117, 108, 108, 45, 79, 110, 32, 80, 115, 121, 116, 114, 97, 110, 99, 101, 32, 80, 97, 114, 116, 121>>,  \* 'Full-On Psytrance Party'
    <<72, 105, 116, 101, 99, 104, 32, 77, 97, 100, 110, 101, 115, 115>>,  \* 'Hitech Madness'
    <<80, 115, 121, 99, 104, 101, 100, 101, 108, 105, 99, 32, 84, 114, 97, 110, 99, 101, 32, 70, 101, 115, 116, 105, 118, 97, 108>>,  \* 'Psychedelic Trance Festival'
    <<85, 110, 100, 101, 114, 103, 114, 111, 117, 110, 100, 32, 80, 115, 121, 32, 71, 97, 116, 104, 101, 114, 105, 110, 103>>,  \* 'Underground Psy Gathering'
    <<84, 114, 97, 110, 99, 101, 32, 85, 110, 105, 116, 121>>  \* 'Trance Unity'
>>

\* self.major_fest_keywords
major_fest_keywords == <<
    <<102, 101, 115, 116, 105, 118, 97, 108>>,  \* 'festival'
    <<102, 101, 115, 116>>,  \* 'fest'
    <<109, 117, 115, 105, 99, 32, 102, 101, 115, 116, 105, 118, 97, 108>>,  \* 'music festival'
    <<101, 108, 101, 99, 116, 114, 111, 110, 105, 99, 32, 109, 117, 115, 105, 99, 32, 102, 101, 115, 116, 105, 118, 97, 108>>,  \* 'electronic music festival'
    <<116, 111, 109, 111, 114, 114, 111, 119, 108, 97, 110, 100>>,  \* 'tomorrowland'
    <<117, 108, 116, 114, 97>>,  \* 'ultra'
    <<99, 114, 101, 97, 109, 102, 105, 101, 108, 100, 115>>,  \* 'creamfields'
    <<97, 119, 97, 107, 101, 110, 105, 110, 103, 115>>,  \* 'awakenings'
    <<98, 111, 111, 109>>,  \* 'boom'
    <<111, 122, 111, 114, 97>>,  \* 'ozora'
    <<98, 117, 114, 110, 105, 110, 103, 32, 109, 97, 110>>,  \* 'burning man'
    <<99, 111, 97, 99, 104, 101, 108, 108, 97>>,  \* 'coachella'
    <<103, 108, 97, 115, 116, 111, 110, 98, 117, 114, 121>>,  \* 'glastonbury'
    <<112, 114, 105, 109, 97, 118, 101, 114, 97>>,  \* 'primavera'
    <<115, 111, 110, 97, 114>>,  \* 'sonar'
    <<116, 105, 109, 101, 32, 119, 97, 114, 112>>,  \* 'time warp'
    <<110, 97, 116, 117, 114, 101, 32, 111, 110, 101>>,  \* 'nature one'
    <<108, 111, 118, 101, 32, 112, 97, 114, 97, 100, 101>>,  \* 'love parade'
    <<113, 108, 105, 109, 97, 120>>  \* 'qlimax'
>>

\* a listed event with the title and date a synthesized event can get: 'Astrix presents Goa Classics', 2026/11/12
ScrapedAstrix ==
    [id |-> 271828,
     title |-> <<65, 115, 116, 114, 105, 120, 32, 112, 114, 101, 115, 101, 110, 116, 115, 32, 71, 111, 97, 32, 67, 108, 97, 115, 115, 105, 99, 115>>,
     date |-> <<50, 48, 50, 54, 47, 49, 49, 47, 49, 50>>]

\* a listed event of yesterday: 'Night', 2026/11/04
ScrapedPast ==
    [id |-> 4711,
     title |-> <<78, 105, 103, 104, 116>>,
     date |-> <<50, 48, 50, 54, 47, 49, 49, 47, 48, 52>>]

\* a listed event of today: 'Sunrise', 2026/11/05
ScrapedToday ==
    [id |-> 4712,
     title |-> <<83, 117, 110, 114, 105, 115, 101>>,
     date |-> <<50, 48, 50, 54, 47, 49, 49, 47, 48, 53>>]

\* the same event listed on another page with another place: 'Sunrise', 2026/11/05
ScrapedTodayAgain ==
    [id |-> 4713,
     title |-> <<83, 117, 110, 114, 105, 115, 101>>,
     date |-> <<50, 48, 50, 54, 47, 49, 49, 47, 48, 53>>]

\* a listed event next month: 'Full Moon', 2026/12/05
ScrapedLater ==
    [id |-> 4714,
     title |-> <<70, 117, 108, 108, 32, 77, 111, 111, 110>>,
     date |-> <<50, 48, 50, 54, 47, 49, 50, 47, 48, 53>>]

\* an Eventbrite event: 'Psytrance Tokyo Night', 2026/11/20
EventbriteNight ==
    [id |-> 314159,
     title |-> <<80, 115, 121, 116, 114, 97, 110, 99, 101, 32, 84, 111, 107, 121, 111, 32, 78, 105, 103, 104, 116>>,
     date |-> <<50, 48, 50, 54, 47, 49, 49, 47, 50, 48>>]

\* an Eventbrite event with the title and date a synthesized event can get: 'Astrix - Hitech Madness', 2026/11/12
EventbriteAstrix ==
    [id |-> 161803,
     title |-> <<65, 115, 116, 114, 105, 120, 32, 45, 32, 72, 105, 116, 101, 99, 104, 32, 77, 97, 100, 110, 101, 115, 115>>,
     date |-> <<50, 48, 50, 54, 47, 49, 49, 47, 49, 50>>]

\* an Eventbrite event of last week: 'Techno Party', 2026/10/29
EventbritePast ==
    [id |-> 577215,
     title |-> <<84, 101, 99, 104, 110, 111, 32, 80, 97, 114, 116, 121>>,
     date |-> <<50, 48, 50, 54, 47, 49, 48, 47, 50, 57>>]

\* a Songkick festival: 'Ozora Festival 2027', 2027/08/02
SongkickOzora ==
    [id |-> <<115, 111, 110, 103, 107, 105, 99, 107, 95, 49, 48, 49>>,
     title |-> <<79, 122, 111, 114, 97, 32, 70, 101, 115, 116, 105, 118, 97, 108, 32, 50, 48, 50, 55>>,
     date |-> <<50, 48, 50, 55, 47, 48, 56, 47, 48, 50>>,
     capacity |-> 0,
     artist_count |-> 60]

\* the same festival found by another query
SongkickOzoraAgain ==
    [id |-> <<115, 111, 110, 103, 107, 105, 99, 107, 95, 49, 48, 50>>,
     title |-> <<79, 122, 111, 114, 97, 32, 70, 101, 115, 116, 105, 118, 97, 108, 32, 50, 48, 50, 55>>,
     date |-> <<50, 48, 50, 55, 47, 48, 56, 47, 48, 50>>,
     capacity |-> 0,
     artist_count |-> 0]

\* a Songkick event that is no major festival: 'Open Air', 2026/12/31
SongkickSmall ==
    [id |-> <<115, 111, 110, 103, 107, 105, 99, 107, 95, 49, 48, 51>>,
     title |-> <<79, 112, 101, 110, 32, 65, 105, 114>>,
     date |-> <<50, 48, 50, 54, 47, 49, 50, 47, 51, 49>>,
     capacity |-> 500,
     artist_count |-> 12]

\* a Songkick festival with the title and date of a mock festival: 'Tomorrowland 2025', 2025/07/25
SongkickTomorrowland ==
    [id |-> <<115, 111, 110, 103, 107, 105, 99, 107, 95, 49, 48, 52>>,
     title |-> <<84, 111, 109, 111, 114, 114, 111, 119, 108, 97, 110, 100, 32, 50, 48, 50, 53>>,
     date |-> <<50, 48, 50, 53, 47, 48, 55, 47, 50, 53>>,
     capacity |-> 400000,
     artist_count |-> 200]

\* _get_major_festivals_mock()
get_major_festivals_mock == <<
    [id |-> <<109, 111, 99, 107, 95, 116, 111, 109, 111, 114, 114, 111, 119, 108, 97, 110, 100>>,  \* mock_tomorrowland
     title |-> <<84, 111, 109, 111, 114, 114, 111, 119, 108, 97, 110, 100, 32, 50, 48, 50, 53>>,  \* Tomorrowland 2025
     date |-> <<50, 48, 50, 53, 47, 48, 55, 47, 50, 53>>,  \* 2025/07/25
     capacity |-> 400000, artist_count |-> 200],
    [id |-> <<109, 111, 99, 107, 95, 117, 108, 116, 114, 97>>,  \* mock_ultra
     title |-> <<85, 108, 116, 114, 97, 32, 77, 117, 115, 105, 99, 32, 70, 101, 115, 116, 105, 118, 97, 108, 32, 50, 48, 50, 53>>,  \* Ultra Music Festival 2025
     date |-> <<50, 48, 50, 53, 47, 48, 51, 47, 50, 56>>,  \* 2025/03/28
     capacity |-> 165000, artist_count |-> 150],
    [id |-> <<109, 111, 99, 107, 95, 99, 114, 101, 97, 109, 102, 105, 101, 108, 100, 115>>,  \* mock_creamfields
     title |-> <<67, 114, 101, 97, 109, 102, 105, 101, 108, 100, 115, 32, 50, 48, 50, 53>>,  \* Creamfields 2025
     date |-> <<50, 48, 50, 53, 47, 48, 56, 47, 50, 56>>,  \* 2025/08/28
     capacity |-> 70000, artist_count |-> 120],
    [id |-> <<109, 111, 99, 107, 95, 111, 122, 111, 114, 97>>,  \* mock_ozora
     title |-> <<79, 122, 111, 114, 97, 32, 70, 101, 115, 116, 105, 118, 97, 108, 32, 50, 48, 50, 53>>,  \* Ozora Festival 2025
     date |-> <<50, 48, 50, 53, 47, 48, 56, 47, 48, 53>>,  \* 2025/08/05
     capacity |-> 40000, artist_count |-> 80],
    [id |-> <<109, 111, 99, 107, 95, 97, 119, 97, 107, 101, 110, 105, 110, 103, 115>>,  \* mock_awakenings
     title |-> <<65, 119, 97, 107, 101, 110, 105, 110, 103, 115, 32, 70, 101, 115, 116, 105, 118, 97, 108, 32, 50, 48, 50, 53>>,  \* Awakenings Festival 2025
     date |-> <<50, 48, 50, 53, 47, 48, 54, 47, 50, 56>>,  \* 2025/06/28
     capacity |-> 80000, artist_count |-> 100]
>>

\* "for i in range(8)" of the two synthesizers
NumSynthetic == 8

\* the bounds of random.randint in _get_future_date
FutureDaysMin(source) == IF source = "major" THEN 30 ELSE 7
FutureDaysMax(source) ==
    IF source = "clubberia" THEN 180 ELSE IF source = "psytrance" THEN 120 ELSE 365

\* the draws of one call of a synthesizer: for each of its events the
\* artist, the event type, the title template and the days ahead.  Three
\* samples: all artists different; the first two events alike; artists,
\* types and templates mixed, the last event at the far end of the range
DrawsDistinct(source) ==
    [i \in 1..NumSynthetic |->
        [artist |-> IF source = "clubberia" THEN i ELSE 7 + i,
         event_type |-> IF source = "clubberia" THEN 3 ELSE 5,
         template |-> 4, days |-> FutureDaysMin(source)]]

DrawsRepeated(source) ==
    [i \in 1..NumSynthetic |->
        [artist |-> 1, event_type |-> 3, template |-> 1,
         days |-> IF i <= 2 THEN FutureDaysMin(source) ELSE FutureDaysMin(source) + i]]

DrawsMixed(source) ==
    [i \in 1..NumSynthetic |->
        [artist |-> 1 + (i % 2), event_type |-> i, template |-> 1 + (i % 5),
         days |-> IF i = NumSynthetic THEN FutureDaysMax(source)
                  ELSE FutureDaysMin(source) + i]]

SampleDraws(source) ==
    IF source = "major" THEN {<<>>}
    ELSE {DrawsDistinct(source), DrawsRepeated(source), DrawsMixed(source)}

\* _get_realistic_clubberia_events()
get_realistic_clubberia_events(draws) ==
    [i \in 1..Len(draws) |->
        [id |-> 5000 + (i - 1),
         \* f"{artist} presents {event_type}"
         title |-> ClubberiaArtists[draws[i].artist]
                       \o <<32, 112, 114, 101, 115, 101, 110, 116, 115, 32>>
                       \o ClubberiaEventTypes[draws[i].event_type],
         date |-> get_future_date(draws[i].days)]]

\* titles[k] of _get_realistic_psytrance_events
PsytranceTitle(artist, event_type, k) ==
    CASE k = 1 ->  \* f"{artist} presents {event_type}"
             artist \o <<32, 112, 114, 101, 115, 101, 110, 116, 115, 32>> \o event_type
      [] k = 2 ->  \* f"{event_type} feat. {artist}"
             event_type \o <<32, 102, 101, 97, 116, 46, 32>> \o artist
      [] k = 3 ->  \* f"Tokyo {event_type} with {artist}"
             <<84, 111, 107, 121, 111, 32>> \o event_type \o <<32, 119, 105, 116, 104, 32>> \o artist
      [] k = 4 ->  \* f"{artist} - {event_type}"
             artist \o <<32, 45, 32>> \o event_type
      [] OTHER ->  \* f"Psychedelic Night: {artist}"
             <<80, 115, 121, 99, 104, 101, 100, 101, 108, 105, 99, 32, 78, 105, 103, 104, 116, 58, 32>> \o artist

\* _get_realistic_psytrance_events()
get_realistic_psytrance_events(draws) ==
    [i \in 1..Len(draws) |->
        [id |-> 4000 + (i - 1),
         title |-> PsytranceTitle(PsytranceArtists[draws[i].artist],
                                  PsytranceEventTypes[draws[i].event_type],
                                  draws[i].template),
         date |-> get_future_date(draws[i].days)]]

\* _is_major_festival(festival)
is_major_festival(festival) ==
    LET title == LowerText(festival.title)
    IN \/ AnyKeywordFrom(major_fest_keywords, title, 1)
       \/ festival.artist_count >= 50
       \/ festival.capacity >= 10000
       \* "festival" in title
       \/ (IsSubstring(<<102, 101, 115, 116, 105, 118, 97, 108>>, title)
              /\ festival.artist_count >= 20)

\* _filter_major_festivals(festivals)
filter_major_festivals(festivals) == SelectSeq(festivals, is_major_festival)

\* scrape_clubberia(): all_events is what the page loop collected, fails
\* says that a step of the try block raises
\* scrape_clubberia without the step that fills a short list
scrape_clubberia_unfilled(all_events, fails, draws) ==
    IF fails THEN get_realistic_clubberia_events(draws)
    ELSE Take(SortByDate(filter_future_events(remove_duplicates(all_events))), 50)

scrape_clubberia(all_events, fails, draws) ==
    IF fails THEN get_realistic_clubberia_events(draws)
    ELSE LET unique_events == remove_duplicates(all_events)
             future_events == filter_future_events(unique_events)
             sorted_events == SortByDate(future_events)
             extended == IF Len(sorted_events) < 3
                         THEN SortByDate(sorted_events
                                  \o get_realistic_clubberia_events(draws))
                         ELSE sorted_events
         IN Take(extended, 50)

\* scrape_psytrance_events whose except clause returns an empty list
scrape_psytrance_events_empty_on_error(eventbrite_events, fails, draws) ==
    IF fails THEN <<>>
    ELSE Take(filter_future_events(remove_duplicates(
                  eventbrite_events \o get_realistic_psytrance_events(draws))), 10)

\* scrape_psytrance_events(): eventbrite_events is what
\* _scrape_eventbrite_psytrance returned
scrape_psytrance_events(eventbrite_events, fails, draws) ==
    IF fails THEN get_realistic_psytrance_events(draws)
    ELSE LET events == eventbrite_events \o get_realistic_psytrance_events(draws)
             unique_events == remove_duplicates(events)
             future_events == filter_future_events(unique_events)
         IN Take(future_events, 10)

\* scrape_major_festivals(): all_festivals is what the searches returned
scrape_major_festivals(all_festivals, fails) ==
    IF fails THEN get_major_festivals_mock
    ELSE LET unique_festivals == remove_duplicates(all_festivals)
             major_festivals == filter_major_festivals(unique_festivals)
             future_festivals == filter_future_events(major_festivals)
             sorted_festivals == SortByDate(future_festivals)
             extended == IF Len(sorted_festivals) < 5
                         THEN SortByDate(sorted_festivals \o get_major_festivals_mock)
                         ELSE sorted_festivals
         IN Take(extended, 30)

\* a listed event whose text gave month 99 and day 99 to _extract_date:
\* '99.99MON' becomes '2026/99/99', which is no date
ScrapedNoDate ==
    [id |-> 4715,
     title |-> <<77, 111, 111, 110, 32, 80, 97, 114, 116, 121>>,
     date |-> <<50, 48, 50, 54, 47, 57, 57, 47, 57, 57>>]

\* a listed event more than a year ahead: 'Solstice', 2028/06/21
ScrapedFar ==
    [id |-> 4716,
     title |-> <<83, 111, 108, 115, 116, 105, 99, 101>>,
     date |-> <<50, 48, 50, 56, 47, 48, 54, 47, 50, 49>>]

\* "for page in range(1, 6)"
MaxPages == 5

\* the most events one listing page delivers
MaxListed == 48

\* a full listing page: 'Night 01', 'Night 02', ... on the days after today
ScrapedSeries ==
    [i \in 1..MaxListed |->
        [id |-> 4800 + i,
         title |-> <<78, 105, 103, 104, 116, 32, 48 + (i \div 10), 48 + (i % 10)>>,
         date |-> Strftime(FromOrdinal(ToOrdinal(Today) + i))]]

\* what the site delivers for one page: the request or the parse raises,
\* the page has no event containers, or page_events (the events of its
\* containers that passed _is_valid_event and the detail filter)
PageOutcomes ==
    {[status |-> "error", events |-> <<>>],
     [status |-> "none", events |-> <<>>],
     [status |-> "ok", events |-> <<>>],
     [status |-> "ok", events |-> <<ScrapedLater, ScrapedPast>>],
     [status |-> "ok", events |-> <<ScrapedNoDate, ScrapedToday, ScrapedAstrix>>],
     [status |-> "ok", events |-> <<ScrapedFar, ScrapedTodayAgain>>]}

\* the same for a site with full listing pages
FullPageOutcomes ==
    {[status |-> "error", events |-> <<>>],
     [status |-> "none", events |-> <<>>],
     [status |-> "ok", events |-> <<ScrapedLater, ScrapedPast>>],
     [status |-> "ok", events |-> <<ScrapedNoDate, ScrapedToday, ScrapedAstrix>>],
     [status |-> "ok", events |-> ScrapedSeries]}

\* the page loop that goes on to the next page when a page has no containers
RECURSIVE PageLoopNoBreak(_, _, _)
PageLoopNoBreak(pages, page, all_events) ==
    IF page > MaxPages THEN [all_events |-> all_events, fetched |-> MaxPages]
    ELSE LET extended == all_events \o pages[page].events
         IN IF pages[page].status = "ok" /\ Len(extended) >= 50
            THEN [all_events |-> extended, fetched |-> page]
            ELSE PageLoopNoBreak(pages, page + 1, extended)

\* the page loop without the test "if len(all_events) >= 50: break"
RECURSIVE PageLoopNoCeiling(_, _, _)
PageLoopNoCeiling(pages, page, all_events) ==
    IF page > MaxPages THEN [all_events |-> all_events, fetched |-> MaxPages]
    ELSE IF pages[page].status = "error"
    THEN PageLoopNoCeiling(pages, page + 1, all_events)
    ELSE IF pages[page].status = "none"
    THEN [all_events |-> all_events, fetched |-> page]
    ELSE PageLoopNoCeiling(pages, page + 1, all_events \o pages[page].events)

\* the page loop whose run ends, with nothing collected, when a page fails
RECURSIVE PageLoopFatal(_, _, _)
PageLoopFatal(pages, page, all_events) ==
    IF page > MaxPages THEN [all_events |-> all_events, fetched |-> MaxPages]
    ELSE IF pages[page].status = "error"
    THEN [all_events |-> <<>>, fetched |-> page]
    ELSE IF pages[page].status = "none"
    THEN [all_events |-> all_events, fetched |-> page]
    ELSE LET extended == all_events \o pages[page].events
         IN IF Len(extended) >= 50
            THEN [all_events |-> extended, fetched |-> page]
            ELSE PageLoopFatal(pages, page + 1, extended)

\* the page loop of scrape_clubberia from page on: all_events at its end,
\* and fetched, the number of the last page requested
RECURSIVE PageLoop(_, _, _)
PageLoop(pages, page, all_events) ==
    IF page > MaxPages THEN [all_events |-> all_events, fetched |-> MaxPages]
    ELSE IF pages[page].status = "error"
    THEN PageLoop(pages, page + 1, all_events)
    ELSE IF pages[page].status = "none"
    THEN [all_events |-> all_events, fetched |-> page]
    ELSE LET extended == all_events \o pages[page].events
         IN IF Len(extended) >= 50
            THEN [all_events |-> extended, fetched |-> page]
            ELSE PageLoop(pages, page + 1, extended)

(***************************************************************************)
(* The pipeline harness: one run of one pipeline.                          *)
(***************************************************************************)
\* the most events the fetch loop of a run collects
MaxScraped == 3

\* the events the searches of Eventbrite and of Songkick can deliver
ScrapedPool(source) ==
    IF source = "psytrance"
    THEN {EventbriteNight, EventbriteAstrix, EventbritePast}
    ELSE {SongkickOzora, SongkickOzoraAgain, SongkickSmall, SongkickTomorrowland}

ScrapedLists(source) ==
    UNION {[1..k -> ScrapedPool(source)] : k \in 0..MaxScraped}

\* the inputs of a run: for Clubberia the five pages, for the other two
\* the list their searches returned
InitPipeline ==
    /\ InitIdleCache
    /\ InitIdleApi
    /\ \E source \in Sources :
       \E scraped \in (IF source = "clubberia" THEN {<<>>} ELSE ScrapedLists(source)),
          pages \in (IF source = "clubberia" THEN [1..MaxPages -> PageOutcomes]
                     ELSE {<<>>}),
          fails \in BOOLEAN, draws \in SampleDraws(source) :
          fin = [source |-> source, scraped |-> scraped, pages |-> pages,
                 fails |-> fails, draws |-> draws]
    /\ fout = <<>>
    /\ fpc = "ready"

\* ret keeps what the page loop did: the last page requested and all_events
RunClubberia ==
    /\ fpc = "ready" /\ fin.source = "clubberia"
    /\ LET loop == PageLoop(fin.pages, 1, <<>>)
       IN /\ fout' = scrape_clubberia(loop.all_events, fin.fails, fin.draws)
          /\ ret' = [op |-> "scrape_clubberia", fetched |-> loop.fetched,
                     all_events |-> loop.all_events]
    /\ fpc' = "done"
    /\ UNCHANGED <<cacheVars, apiVars, fin, threadVars>>

RunPsytrance ==
    /\ fpc = "ready" /\ fin.source = "psytrance"
    /\ fout' = scrape_psytrance_events(fin.scraped, fin.fails, fin.draws)
    /\ fpc' = "done"
    /\ UNCHANGED <<cacheVars, ret, apiVars, fin, threadVars>>

RunMajor ==
    /\ fpc = "ready" /\ fin.source = "major"
    /\ fout' = scrape_major_festivals(fin.scraped, fin.fails)
    /\ fpc' = "done"
    /\ UNCHANGED <<cacheVars, ret, apiVars, fin, threadVars>>

NextPipeline ==
    \/ RunClubberia
    \/ RunPsytrance
    \/ RunMajor

SpecPipeline == InitPipeline /\ [][NextPipeline]_vars

\* C8: in the list one pipeline run returns no two events share the same
\* (title, date) pair.
C8_UniqueTitleDate ==
    fpc = "done" =>
        \A i, j \in 1..Len(fout) :
            i # j => <<fout[i].title, fout[i].date>> # <<fout[j].title, fout[j].date>>

\* the events of the pages before page k, in page order
RECURSIVE EventsBefore(_, _)
EventsBefore(pages, k) ==
    IF k <= 1 THEN <<>>
    ELSE EventsBefore(pages, k - 1) \o pages[k - 1].events

\* the first page on which the Container Locator finds nothing, 0 if none
FirstEmptyPage(pages) ==
    IF \E k \in 1..MaxPages : pages[k].status = "none"
    THEN CHOOSE k \in 1..MaxPages :
            /\ pages[k].status = "none"
            /\ \A j \in 1..(k - 1) : pages[j].status # "none"
    ELSE 0

\* C11: when page k of a Clubberia run is requested (the pages before it
\* gave fewer than 50 events) and has no containers, page k is the last
\* page requested, the run does not fail, and what it returns is what
\* deduplication, the future filter, sorting and the fallback make of the
\* events collected from the pages before k.
C11_NoContainersStopsPagination ==
    (/\ fpc = "done" /\ fin.source = "clubberia" /\ ~fin.fails
     /\ FirstEmptyPage(fin.pages) # 0
     /\ Len(EventsBefore(fin.pages, FirstEmptyPage(fin.pages))) < 50) =>
        LET k == FirstEmptyPage(fin.pages)
        IN /\ ret.fetched = k
           /\ ret.all_events = EventsBefore(fin.pages, k)
           /\ fout = scrape_clubberia(EventsBefore(fin.pages, k), FALSE, fin.draws)
           /\ fout # <<>>

\* a run whose second page has no containers while its first and third do
C11_Witness ==
    /\ fpc = "done" /\ fin.source = "clubberia" /\ ~fin.fails
    /\ fin.pages[1].events # <<>>
    /\ fin.pages[2].status = "none"
    /\ fin.pages[3].events # <<>>
    /\ ret.fetched = 2
    /\ ret.all_events = fin.pages[1].events

\* every event of list part is in list whole
AllIn(part, whole) ==
    \A i \in 1..Len(part) : \E j \in 1..Len(whole) : whole[j] = part[i]

\* C12: a Clubberia run left with fewer than 3 events after deduplication and
\* the future filter returns them together with the synthesized events, at
\* least 3 in all; a festival run left with fewer than 5 returns them with
\* the mock festivals, at least 5 in all.
C12_ShortListIsFilled ==
    (fpc = "done" /\ ~fin.fails) =>
        /\ (/\ fin.source = "clubberia"
            /\ Len(filter_future_events(remove_duplicates(ret.all_events))) < 3) =>
               /\ Len(fout) >= 3
               /\ AllIn(get_realistic_clubberia_events(fin.draws), fout)
               /\ AllIn(filter_future_events(remove_duplicates(ret.all_events)), fout)
        /\ (/\ fin.source = "major"
            /\ Len(filter_future_events(remove_duplicates(fin.scraped))) < 5) =>
               /\ Len(fout) >= 5
               /\ AllIn(get_major_festivals_mock, fout)

\* a Clubberia run whose pages gave two future events, filled up to ten
C12_Witness ==
    /\ fpc = "done" /\ fin.source = "clubberia" /\ ~fin.fails
    /\ Len(ret.all_events) > 2
    /\ Len(filter_future_events(remove_duplicates(ret.all_events))) = 2
    /\ Len(fout) = 2 + NumSynthetic

(***************************************************************************)
(* The date normalizers: _format_date of the three scrapers.               *)
(***************************************************************************)
\* datetime.strptime(t, fmt) for a format of %Y, %m and %d in the given
\* order with sep between them, e.g. <<"m", "d", "Y">> and '/' for
\* '%m/%d/%Y': the fields are digits, so t has exactly two separators
StrptimeFmt(t, order, sep) ==
    LET n == Len(t)
        seps == {i \in 1..n : t[i] = sep}
        bad == [ok |-> FALSE, date |-> Today]
    IN IF Cardinality(seps) # 2 THEN bad
       ELSE LET s1 == CHOOSE i \in seps : \A j \in seps : i <= j
                s2 == CHOOSE i \in seps : i # s1
                part == <<SubSeq(t, 1, s1 - 1), SubSeq(t, s1 + 1, s2 - 1),
                          SubSeq(t, s2 + 1, n)>>
                Field(f) == part[CHOOSE k \in 1..3 : order[k] = f]
                ytxt == Field("Y")
                mtxt == Field("m")
                dtxt0 == Field("d")
                dtxt == IF Len(dtxt0) = 2 /\ dtxt0[1] = 32
                        THEN SubSeq(dtxt0, 2, 2) ELSE dtxt0
            IN IF \/ Len(ytxt) # 4 \/ ~IsDigits(ytxt)
                  \/ Len(mtxt) \notin 1..2 \/ ~IsDigits(mtxt)
                  \/ Len(dtxt0) \notin 1..2 \/ dtxt = <<>> \/ ~IsDigits(dtxt)
               THEN bad
               ELSE LET y == Number(ytxt)
                        m == Number(mtxt)
                        d == Number(dtxt)
                    IN IF /\ y >= 1 /\ m \in 1..12 /\ d >= 1
                          /\ d <= DaysInMonth(y, m)
                       THEN [ok |-> TRUE, date |-> [year |-> y, month |-> m, day |-> d]]
                       ELSE bad

\* re.search of r'(\d{4})年(\d{1,2})月(\d{1,2})日' (with_year) or of
\* r'(\d{1,2})月(\d{1,2})日' in t: the groups of the leftmost match
JapaneseDate(t, with_year) ==
    LET n == Len(t)
        Digits(i, k) == i + k - 1 <= n /\ IsDigits(SubSeq(t, i, i + k - 1))
        At(i, c) == i <= n /\ t[i] = c
        MonthAt(i) == IF with_year THEN i + 5 ELSE i
        Match(i, ml, dl) ==
            /\ with_year => (Digits(i, 4) /\ At(i + 4, 24180))
            /\ Digits(MonthAt(i), ml) /\ At(MonthAt(i) + ml, 26376)
            /\ Digits(MonthAt(i) + ml + 1, dl) /\ At(MonthAt(i) + ml + 1 + dl, 26085)
        found == {c \in (1..n) \X (1..2) \X (1..2) : Match(c[1], c[2], c[3])}
    IN IF found = {} THEN [ok |-> FALSE, year |-> <<>>, month |-> <<>>, day |-> <<>>]
       ELSE LET c == CHOOSE x \in found : \A o \in found : x[1] <= o[1]
                m0 == MonthAt(c[1])
            IN [ok |-> TRUE,
                year |-> IF with_year THEN SubSeq(t, c[1], c[1] + 3) ELSE <<>>,
                month |-> SubSeq(t, m0, m0 + c[2] - 1),
                day |-> SubSeq(t, m0 + c[2] + 1, m0 + c[2] + c[3])]

\* ClubberScraper._format_date(date_str) when _get_future_date would draw
\* future_days; fallback tells that the result is that random date
clubberia_format_date(date_str, future_days) ==
    LET Has(c) == \E i \in 1..Len(date_str) : date_str[i] = c
        zfill(t) == IF Len(t) < 2 THEN <<48>> \o t ELSE t
        random == [date |-> get_future_date(future_days), fallback |-> TRUE]
        full == JapaneseDate(date_str, TRUE)
        short == JapaneseDate(date_str, FALSE)
        head == Take(date_str, 10)
        formats == <<[order |-> <<"Y", "m", "d">>, sep |-> 45],
                     [order |-> <<"Y", "m", "d">>, sep |-> 47],
                     [order |-> <<"m", "d", "Y">>, sep |-> 47],
                     [order |-> <<"d", "m", "Y">>, sep |-> 47]>>
        parses == {k \in 1..4 : StrptimeFmt(head, formats[k].order, formats[k].sep).ok}
    IN IF date_str = <<>> THEN random
       ELSE IF Has(24180) /\ Has(26376) /\ Has(26085) /\ full.ok
       THEN [date |-> full.year \o <<47>> \o zfill(full.month) \o <<47>> \o zfill(full.day),
             fallback |-> FALSE]
       ELSE IF Has(26376) /\ Has(26085) /\ short.ok
       THEN [date |-> <<Digit(Today.year \div 1000), Digit((Today.year \div 100) % 10),
                        Digit((Today.year \div 10) % 10), Digit(Today.year % 10)>>
                      \o <<47>> \o zfill(short.month) \o <<47>> \o zfill(short.day),
             fallback |-> FALSE]
       ELSE IF parses # {}
       THEN LET k == CHOOSE x \in parses : \A o \in parses : x <= o
            IN [date |-> Strftime(StrptimeFmt(head, formats[k].order, formats[k].sep).date),
                fallback |-> FALSE]
       ELSE random

\* PsytranceScraper._format_date(date_str)
psytrance_format_date(date_str, future_days) ==
    LET random == [date |-> get_future_date(future_days), fallback |-> TRUE]
        head == Take(date_str, 10)
        formats == <<[order |-> <<"Y", "m", "d">>, sep |-> 45],
                     [order |-> <<"m", "d", "Y">>, sep |-> 47],
                     [order |-> <<"d", "m", "Y">>, sep |-> 46]>>
        parses == {k \in 1..3 : StrptimeFmt(head, formats[k].order, formats[k].sep).ok}
    IN IF date_str = <<>> THEN random
       ELSE IF parses # {}
       THEN LET k == CHOOSE x \in parses : \A o \in parses : x <= o
            IN [date |-> Strftime(StrptimeFmt(head, formats[k].order, formats[k].sep).date),
                fallback |-> FALSE]
       ELSE random

\* datetime.fromisoformat(t) for the extended form YYYY-MM-DD, one separator
\* character, hh, hh:mm or hh:mm:ss and an optional offset +hh:mm or -hh:mm
\* (basic format, week dates and fractions of a second are not modelled:
\* ok is FALSE for them as for a ValueError)
FromIsoFormat(t) ==
    LET n == Len(t)
        Two(i) == i + 1 <= n /\ IsDigits(SubSeq(t, i, i + 1))
        Val(i) == Number(SubSeq(t, i, i + 1))
        day == StrptimeFmt(SubSeq(t, 1, Min(10, n)), <<"Y", "m", "d">>, 45)
        signs == {i \in 12..n : t[i] \in {43, 45}}
        tend == IF signs = {} THEN n ELSE (CHOOSE i \in signs : \A j \in signs : i <= j) - 1
        clock == /\ tend - 11 \in {2, 5, 8}
                 /\ Two(12) /\ Val(12) <= 23
                 /\ tend - 11 >= 5 => (t[14] = 58 /\ Two(15) /\ Val(15) <= 59)
                 /\ tend - 11 >= 8 => (t[17] = 58 /\ Two(18) /\ Val(18) <= 59)
        offset == \/ tend = n
                  \/ /\ n = tend + 6 /\ Two(tend + 2) /\ Val(tend + 2) <= 23
                     /\ t[tend + 4] = 58 /\ Two(tend + 5) /\ Val(tend + 5) <= 59
    IN IF /\ n >= 10 /\ day.ok /\ t[5] = 45 /\ t[8] = 45
          /\ n = 10 \/ (n >= 13 /\ clock /\ offset)
       THEN day
       ELSE [ok |-> FALSE, date |-> Today]

\* MajorFestsScraper._format_date(date_str)
major_format_date(date_str, future_days) ==
    LET random == [date |-> get_future_date(future_days), fallback |-> TRUE]
        RECURSIVE ReplaceZ(_)
        \* date_str.replace('Z', '+00:00')
        ReplaceZ(t) == IF t = <<>> THEN <<>>
                       ELSE (IF Head(t) = 90 THEN <<43, 48, 48, 58, 48, 48>> ELSE <<Head(t)>>)
                            \o ReplaceZ(Tail(t))
        iso == FromIsoFormat(ReplaceZ(date_str))
        plain == StrptimeFmt(date_str, <<"Y", "m", "d">>, 45)
    IN IF date_str = <<>> THEN random
       ELSE IF \E i \in 1..Len(date_str) : date_str[i] = 84
       THEN (IF iso.ok THEN [date |-> Strftime(iso.date), fallback |-> FALSE] ELSE random)
       ELSE IF plain.ok THEN [date |-> Strftime(plain.date), fallback |-> FALSE]
       ELSE random

\* the dates written in canonical form: first, middle and last days of every
\* month of this year and the two next (2028 is a leap year)
CanonicalDates ==
    {Strftime([year |-> y, month |-> mo, day |-> d]) :
        <<y, mo, d>> \in {c \in (Today.year..(Today.year + 2)) \X (1..12) \X {1, 9, 28, 29, 30, 31} :
                            c[3] <= DaysInMonth(c[1], c[2])}}

\* other strings the sites give: '', '2026-11-12', '2026-11-12T20:00:00',
\* '2026-11-12T20:00:00Z', '11/12/2026', '25/12/2026', '12.11.2026',
\* '2026年11月12日', '11月2日(月)', '2026/2/30', 'TBA'
OtherDateStrings ==
    {<<>>, <<50, 48, 50, 54, 45, 49, 49, 45, 49, 50>>,
     <<50, 48, 50, 54, 45, 49, 49, 45, 49, 50, 84, 50, 48, 58, 48, 48, 58, 48, 48>>,
     <<50, 48, 50, 54, 45, 49, 49, 45, 49, 50, 84, 50, 48, 58, 48, 48, 58, 48, 48, 90>>,
     <<49, 49, 47, 49, 50, 47, 50, 48, 50, 54>>, <<50, 53, 47, 49, 50, 47, 50, 48, 50, 54>>,
     <<49, 50, 46, 49, 49, 46, 50, 48, 50, 54>>,
     <<50, 48, 50, 54, 24180, 49, 49, 26376, 49, 50, 26085>>,
     <<49, 49, 26376, 50, 26085, 40, 26376, 41>>,
     <<50, 48, 50, 54, 47, 50, 47, 51, 48>>, <<84, 66, 65>>}

InitFormat ==
    /\ InitIdleCache
    /\ InitIdleApi
    /\ \E source \in Sources, date_str \in CanonicalDates \cup OtherDateStrings :
       \E days \in {FutureDaysMin(source), FutureDaysMax(source)} :
          fin = [source |-> source, date_str |-> date_str, days |-> days]
    /\ fout = <<>>
    /\ fpc = "ready"

FormatClubberia ==
    /\ fpc = "ready" /\ fin.source = "clubberia"
    /\ fout' = clubberia_format_date(fin.date_str, fin.days)
    /\ fpc' = "done"
    /\ UNCHANGED <<cacheVars, ret, apiVars, fin, threadVars>>

FormatPsytrance ==
    /\ fpc = "ready" /\ fin.source = "psytrance"
    /\ fout' = psytrance_format_date(fin.date_str, fin.days)
    /\ fpc' = "done"
    /\ UNCHANGED <<cacheVars, ret, apiVars, fin, threadVars>>

FormatMajor ==
    /\ fpc = "ready" /\ fin.source = "major"
    /\ fout' = major_format_date(fin.date_str, fin.days)
    /\ fpc' = "done"
    /\ UNCHANGED <<cacheVars, ret, apiVars, fin, threadVars>>

NextFormat == FormatClubberia \/ FormatPsytrance \/ FormatMajor

SpecFormat == InitFormat /\ [][NextFormat]_vars

\* C13: each scraper's normalizer returns a canonical YYYY/MM/DD string of a
\* valid date as it is, and not the random future date.
C13_CanonicalRoundTrip ==
    (fpc = "done" /\ fin.date_str \in CanonicalDates) =>
        (fout.date = fin.date_str /\ ~fout.fallback)

C15_ClearEmptiesDefaultSource ==
    [][/\ ret'.op = "clear_cache" => ret'.left = "absent"
       /\ (/\ ret.op = "clear_cache" /\ ret'.op = "get_events"
           /\ ret'.source = DefaultSource) =>
              (ret'.pre = "absent" /\ (ret'.status = 200 => ret'.ran))]_vars

\* the item of key is in both stores with the same value and times of
\* creation and expiry, or in neither
SameEntry(s1, s2, key) ==
    IF key \in DOMAIN s1
    THEN /\ key \in DOMAIN s2
         /\ s2[key].value = s1[key].value
         /\ s2[key].created_at = s1[key].created_at
         /\ s2[key].expires_at = s1[key].expires_at
    ELSE key \notin DOMAIN s2

\* a Clubberia item lives 21600 s, a psytrance item 3600 s
C16_OwnTTL ==
    /\ ClubberiaKey \in DOMAIN store =>
           store[ClubberiaKey].expires_at = store[ClubberiaKey].created_at + 21600
    /\ EventsKey \in DOMAIN store =>
           store[EventsKey].expires_at = store[EventsKey].created_at + 3600

\* a request for one source and DELETE /cache leave a valid item of another
\* source as it is
C16_OthersUnchanged ==
       /\ (ret'.op = "get_events" /\ ret'.source = "clubberia"
           /\ PreState(store, "psytrance", now) = "valid") =>
              SameEntry(store, store', EventsKey)
       /\ (ret'.op = "get_events" /\ ret'.source = "psytrance"
           /\ PreState(store, "clubberia", now) = "valid") =>
              SameEntry(store, store', ClubberiaKey)
       /\ ret'.op = "clear_cache" => SameEntry(store, store', ClubberiaKey)

\* a request that fetched the events of its source leaves a valid item of
\* that source
C16_FetchedIsCached ==
    (ret.op = "get_events" /\ ret.ran /\ ~ret.raised /\ ret.status = 200) =>
        ret.valid_after

\* C16: every source has its own cache item with its own TTL (Clubberia
\* 21600 s, psytrance 3600 s); storing, expiring or clearing the item of
\* one source leaves the items of the others unchanged; and each of
\* clubberia, major and psytrance has its item after it was fetched.
C16_PerSourceEntries ==
    [][C16_OwnTTL' /\ C16_OthersUnchanged /\ C16_FetchedIsCached']_vars

\* list is what a synthesizer of 8 events with ids from first_id on makes:
\* every date is a valid date lo to hi days ahead
IsSynthesized(list, first_id, lo, hi) ==
    /\ Len(list) = 8
    /\ \A i \in 1..Len(list) :
          /\ list[i].id = first_id + i - 1
          /\ list[i].title # <<>>
          /\ Strptime(list[i].date).ok
          /\ ToOrdinal(Strptime(list[i].date).date) - ToOrdinal(Today) \in lo..hi

\* C17: a pipeline run in which a step raises returns, instead of raising,
\* the non-empty list of its Fallback Synthesizer: 8 synthesized events for
\* Clubberia and for psytrance, the 5 mock festivals for the festivals.
C17_FailureReturnsSynthesized ==
    (fpc = "done" /\ fin.fails) =>
        /\ fout # <<>>
        /\ fin.source = "clubberia" => IsSynthesized(fout, 5000, 7, 180)
        /\ fin.source = "psytrance" => IsSynthesized(fout, 4000, 7, 120)
        /\ fin.source = "major" => fout = get_major_festivals_mock

\* a psytrance run that had events from Eventbrite when a step raised
C17_Witness ==
    /\ fpc = "done" /\ fin.fails /\ fin.source = "psytrance"
    /\ fin.scraped # <<>>
    /\ Len(fout) = 8
    /\ \A i \in 1..Len(fin.scraped) : \A j \in 1..Len(fout) : fout[j].id # fin.scraped[i].id

EntryState(s, key, t) ==
    IF key \notin DOMAIN s THEN "absent"
    ELSE IF t > s[key].expires_at THEN "expired"
    ELSE "valid"

\* C19: get(key) removes the item of key exactly when it finds it expired
\* and removes no other item; cleanup_expired removes exactly the expired
\* items and returns how many; and without a set an absent key stays absent
\* and an expired item never becomes valid again.
C19_ExpiredEvictedOnly ==
    [][/\ ret'.op = "get" =>
             /\ DOMAIN store' \ {ret'.key} = DOMAIN store \ {ret'.key}
             /\ (ret'.key \in DOMAIN store') <=> (EntryState(store, ret'.key, now) = "valid")
             /\ EntryState(store, ret'.key, now) = "expired" => ~ret'.hit
       /\ ret'.op = "cleanup_expired" =>
             /\ DOMAIN store' = {k \in DOMAIN store : EntryState(store, k, now) = "valid"}
             /\ \A k \in DOMAIN store' : store'[k] = store[k]
             /\ ret'.result = Cardinality(DOMAIN store) - Cardinality(DOMAIN store')
       /\ ret'.op # "set" =>
             \A k \in TestKeys :
                /\ EntryState(store, k, now) = "absent" =>
                       EntryState(store', k, now') = "absent"
                /\ EntryState(store, k, now) = "expired" =>
                       EntryState(store', k, now') \in {"expired", "absent"}]_vars

\* a sweep that removed one expired item and kept one that expires now
C19_Witness ==
    /\ ret.op = "cleanup_expired" /\ ret.result = 1
    /\ \E k \in DOMAIN store : store[k].expires_at = now

\* C20: a get that returns a value stores the time of the read in the
\* item's last_accessed and changes nothing else: the item's value,
\* created_at and expires_at and every other item stay as they were.
C20_ReadTouchesLastAccessedOnly ==
    [][(ret'.op = "get" /\ ret'.hit) =>
          /\ DOMAIN store' = DOMAIN store
          /\ store'[ret'.key].value = store[ret'.key].value
          /\ store'[ret'.key].created_at = store[ret'.key].created_at
          /\ store'[ret'.key].expires_at = store[ret'.key].expires_at
          /\ store'[ret'.key].last_accessed = now'
          /\ \A k \in DOMAIN store \ {ret'.key} : store'[k] = store[k]]_vars

\* a read, later than the set, of one of two items
C20_Witness ==
    /\ ret.op = "get" /\ ret.hit
    /\ store[ret.key].last_accessed > store[ret.key].created_at
    /\ store[ret.key].expires_at > store[ret.key].last_accessed
    /\ DOMAIN store = TestKeys

\* C21: the item that set(key, value, ttl) stores has
\* expires_at = created_at + ttl, ttl being default_ttl when none is passed.
C21_ExpiresAtIsCreatedPlusTTL ==
    ret.op = "set" =>
        store[ret.key].expires_at = store[ret.key].created_at + ret.ttl

(***************************************************************************)
(* TTLCache under threads: every method body runs statement by statement,  *)
(* inside "with self._lock".  A thread that is in no call has pc "done".   *)
(***************************************************************************)
\* the clock of this harness stops at this time
MaxThreadTime == 2
\* the ttl the threads pass to set
ThreadTTL == 1

Threads == {"a", "b"}

\* the methods, and those that take a key
CacheOps == {"get", "set", "delete", "clear", "cleanup_expired", "get_stats",
             "has_valid_cache"}
KeyedOps == {"get", "set", "delete", "has_valid_cache"}

\* a lock that excludes nobody
AcquireAlways(owner, t) == TRUE

\* threading.RLock: free, or owned by the thread itself
CanAcquire(owner, t) == owner \in {None, t}

\* a thread outside a call; op, error and atomic tell of its last call:
\* whether it raised, and whether its result and the store it left are
\* those of the method run in one piece on the store it found
Done(op, error, atomic) ==
    [pc |-> "done", op |-> op, key |-> None, value |-> None, snap |-> <<>>,
     item |-> None, t1 |-> 0, t2 |-> 0, keys |-> {}, n |-> 0,
     error |-> error, atomic |-> atomic]

InitThreads ==
    /\ now = 0
    /\ store = [k \in {} |-> None]
    /\ written = [k \in {} |-> None]
    /\ ret = NoRet
    /\ is_scraping = FALSE /\ queued = 0 /\ running = 0
    /\ startup = "off" /\ task = "none"
    /\ InitIdleFn
    /\ lock = None
    /\ threads = [t \in Threads |-> Done("none", FALSE, TRUE)]

\* the return of a call: "with" releases the lock
Finish(t, result, new_store, exp_result, exp_store) ==
    /\ store' = new_store
    /\ lock' = None
    /\ threads' = [threads EXCEPT ![t] =
                      Done(threads[t].op, FALSE,
                           result = exp_result /\ new_store = exp_store)]

\* an exception leaves the "with" block and the call
Fail(t) ==
    /\ lock' = None
    /\ threads' = [threads EXCEPT ![t] = Done(threads[t].op, TRUE, FALSE)]
    /\ UNCHANGED store

\* a statement that is not the last of its call
Goto(t, th) ==
    /\ threads' = [threads EXCEPT ![t] = th]
    /\ UNCHANGED lock

\* a thread calls a method and enters "with self._lock"; cleanup_expired
\* has read current_time before, while it may have waited for the lock
ThreadCall ==
    \E t \in Threads, op \in CacheOps :
    \E key \in (IF op \in KeyedOps THEN TestKeys ELSE {None}),
       value \in (IF op = "set" THEN TestValues ELSE {None}),
       current_time \in (IF op = "cleanup_expired" THEN 0..now ELSE {0}) :
        /\ threads[t].pc = "done"
        /\ CanAcquire(lock, t)
        /\ lock' = t
        /\ threads' = [threads EXCEPT ![t] =
                          [Done(op, FALSE, FALSE) EXCEPT
                              !.pc = "1", !.key = key, !.value = value,
                              !.snap = store, !.t1 = current_time]]
        /\ UNCHANGED <<now, store, written, ret, apiVars, fnVars>>

\* TTLCache.get, a statement at a time
GetStep ==
    \E t \in Threads :
        LET th == threads[t]
            key == th.key
            same == /\ key \in DOMAIN store
                    /\ [store[key] EXCEPT !.last_accessed = 0]
                         = [th.item EXCEPT !.last_accessed = 0]
        IN /\ th.op = "get" /\ th.pc # "done"
           /\ CASE th.pc = "1" ->   \* if key not in self._cache: return None
                     IF key \notin DOMAIN store
                     THEN Finish(t, None, store, TTLGet(th.snap, key, now, now).value,
                                 TTLGet(th.snap, key, now, now).store)
                     ELSE Goto(t, [th EXCEPT !.pc = "2"]) /\ UNCHANGED store
                [] th.pc = "2" ->   \* item = self._cache[key]
                     IF key \notin DOMAIN store THEN Fail(t)
                     ELSE Goto(t, [th EXCEPT !.pc = "3", !.item = store[key]])
                          /\ UNCHANGED store
                [] th.pc = "3" ->   \* if time.time() > item['expires_at']:
                     Goto(t, [th EXCEPT !.t1 = now,
                                        !.pc = IF now > th.item.expires_at
                                               THEN "del" ELSE "4"])
                     /\ UNCHANGED store
                [] th.pc = "del" -> \* del self._cache[key]; return None
                     IF key \notin DOMAIN store THEN Fail(t)
                     ELSE Finish(t, None, DictDel(store, key),
                                 TTLGet(th.snap, key, th.t1, th.t1).value,
                                 TTLGet(th.snap, key, th.t1, th.t1).store)
                [] OTHER ->         \* item['last_accessed'] = time.time()
                     Finish(t, th.item.value,
                            IF same THEN [store EXCEPT ![key].last_accessed = now]
                            ELSE store,
                            TTLGet(th.snap, key, th.t1, now).value,
                            TTLGet(th.snap, key, th.t1, now).store)
           /\ UNCHANGED <<now, written, ret, apiVars, fnVars>>

\* TTLCache.set: the three reads of the clock, then the assignment
SetStep ==
    \E t \in Threads :
        LET th == threads[t]
        IN /\ th.op = "set" /\ th.pc # "done"
           /\ CASE th.pc = "1" ->   \* expires_at = time.time() + ttl
                     Goto(t, [th EXCEPT !.pc = "2", !.t1 = now]) /\ UNCHANGED store
                [] th.pc = "2" ->   \* 'created_at': time.time()
                     Goto(t, [th EXCEPT !.pc = "3", !.t2 = now]) /\ UNCHANGED store
                [] OTHER ->         \* 'last_accessed': time.time(); self._cache[key] = {...}
                     Finish(t, None,
                            DictPut(store, th.key,
                                    [value |-> th.value, expires_at |-> th.t1 + ThreadTTL,
                                     created_at |-> th.t2, last_accessed |-> now]),
                            None,
                            TTLSet(th.snap, th.key, th.value, ThreadTTL, th.t1, th.t2, now))
           /\ UNCHANGED <<now, written, ret, apiVars, fnVars>>

\* TTLCache.delete
DeleteStep ==
    \E t \in Threads :
        LET th == threads[t]
        IN /\ th.op = "delete" /\ th.pc # "done"
           /\ CASE th.pc = "1" ->   \* if key in self._cache:
                     IF th.key \in DOMAIN store
                     THEN Goto(t, [th EXCEPT !.pc = "2"]) /\ UNCHANGED store
                     ELSE Finish(t, FALSE, store, TTLDelete(th.snap, th.key).result,
                                 TTLDelete(th.snap, th.key).store)
                [] OTHER ->         \* del self._cache[key]; return True
                     IF th.key \notin DOMAIN store THEN Fail(t)
                     ELSE Finish(t, TRUE, DictDel(store, th.key),
                                 TTLDelete(th.snap, th.key).result,
                                 TTLDelete(th.snap, th.key).store)
           /\ UNCHANGED <<now, written, ret, apiVars, fnVars>>

\* TTLCache.clear
ClearStep ==
    \E t \in Threads :
        /\ threads[t].op = "clear" /\ threads[t].pc # "done"
        /\ Finish(t, None, [k \in {} |-> None], None, TTLClear(threads[t].snap))
        /\ UNCHANGED <<now, written, ret, apiVars, fnVars>>

\* TTLCache.cleanup_expired: the loop that collects expired_keys, then one
\* del for each of them
CleanupStep ==
    \E t \in Threads :
        LET th == threads[t]
        IN /\ th.op = "cleanup_expired" /\ th.pc # "done"
           /\ CASE th.pc = "1" ->
                     LET expired_keys == {k \in DOMAIN store : th.t1 > store[k].expires_at}
                     IN Goto(t, [th EXCEPT !.pc = "2", !.keys = expired_keys,
                                           !.n = Cardinality(expired_keys)])
                        /\ UNCHANGED store
                [] OTHER ->
                     IF th.keys = {}
                     THEN Finish(t, th.n, store, TTLCleanupExpired(th.snap, th.t1).result,
                                 TTLCleanupExpired(th.snap, th.t1).store)
                     ELSE \E k \in th.keys :
                             IF k \notin DOMAIN store THEN Fail(t)
                             ELSE /\ store' = DictDel(store, k)
                                  /\ Goto(t, [th EXCEPT !.keys = th.keys \ {k}])
           /\ UNCHANGED <<now, written, ret, apiVars, fnVars>>

\* TTLCache.get_stats: current_time and total_items, then the count of the
\* expired items and the result
StatsStep ==
    \E t \in Threads :
        LET th == threads[t]
        IN /\ th.op = "get_stats" /\ th.pc # "done"
           /\ CASE th.pc = "1" ->
                     Goto(t, [th EXCEPT !.pc = "2", !.t1 = now,
                                        !.n = Cardinality(DOMAIN store)])
                     /\ UNCHANGED store
                [] OTHER ->
                     LET expired_items ==
                             Cardinality({k \in DOMAIN store : th.t1 > store[k].expires_at})
                     IN Finish(t, [total_items |-> th.n,
                                   valid_items |-> th.n - expired_items,
                                   expired_items |-> expired_items,
                                   cache_keys |-> DOMAIN store],
                               store, TTLGetStats(th.snap, th.t1), th.snap)
           /\ UNCHANGED <<now, written, ret, apiVars, fnVars>>

\* TTLCache.has_valid_cache
HasValidStep ==
    \E t \in Threads :
        LET th == threads[t]
        IN /\ th.op = "has_valid_cache" /\ th.pc # "done"
           /\ CASE th.pc = "1" ->   \* if key not in self._cache: return False
                     IF th.key \notin DOMAIN store
                     THEN Finish(t, FALSE, store,
                                 TTLHasValidCache(th.snap, th.key, now), th.snap)
                     ELSE Goto(t, [th EXCEPT !.pc = "2"]) /\ UNCHANGED store
                [] OTHER ->         \* item = self._cache[key]; return time.time() <= ...
                     IF th.key \notin DOMAIN store THEN Fail(t)
                     ELSE Finish(t, now <= store[th.key].expires_at, store,
                                 TTLHasValidCache(th.snap, th.key, now), th.snap)
           /\ UNCHANGED <<now, written, ret, apiVars, fnVars>>

\* time passes, also while a thread is inside a call
ThreadTick ==
    /\ now < MaxThreadTime
    /\ now' = now + 1
    /\ UNCHANGED <<store, written, ret, apiVars, fnVars, threadVars>>

NextThreads ==
    \/ ThreadCall
    \/ GetStep
    \/ SetStep
    \/ DeleteStep
    \/ ClearStep
    \/ CleanupStep
    \/ StatsStep
    \/ HasValidStep
    \/ ThreadTick

SpecThreads == InitThreads /\ [][NextThreads]_vars

\* C22: whatever the interleaving of the threads, at most one of them is
\* inside a method body; no call raises; the result of every call (for
\* get_stats: total_items, valid_items = total_items - expired_items,
\* expired_items and the keys) and the store it leaves are those of the
\* whole method applied to the store the call found; and every item in the
\* store has all four fields.
C22_CallsAreAtomic ==
    /\ Cardinality({t \in Threads : threads[t].pc # "done"}) <= 1
    /\ \A t \in Threads :
          (threads[t].pc = "done" /\ threads[t].op # "none") =>
              (~threads[t].error /\ threads[t].atomic)
    /\ \A k \in DOMAIN store :
          DOMAIN store[k] = {"value", "expires_at", "created_at", "last_accessed"}

\* one thread has finished a sweep while the other, inside get, has found
\* its item expired and is about to delete it
C22_Witness ==
    /\ \E t \in Threads : threads[t].pc = "done" /\ threads[t].op = "cleanup_expired"
    /\ \E t \in Threads : threads[t].pc = "del" /\ threads[t].op = "get"
    /\ now = MaxThreadTime

\* C23: is_scraping is false while no refresh is between its start and its
\* end, so at process start and after every refresh that ended, by success
\* or by an exception; and a refresh that starts when no other is in
\* progress is run, not dropped.
C23_GuardResetAfterEveryRefresh ==
    [][/\ running = 0 => ~is_scraping
       /\ running' = 0 => ~is_scraping'
       /\ running' < running => ~is_scraping'
       /\ (queued' < queued /\ running = 0) =>
              (task' = "started" /\ is_scraping' /\ running' = 1)]_vars

\* a refresh has raised, the guard is false again and a refresh waits
C23_Witness ==
    /\ task = "failed" /\ ~is_scraping /\ running = 0
    /\ queued > 0

(***************************************************************************)
(* The page harness: one run of scrape_clubberia on a site whose listing   *)
(* pages can be full.                                                      *)
(***************************************************************************)
InitPages ==
    /\ InitIdleCache
    /\ InitIdleApi
    /\ \E pages \in [1..MaxPages -> FullPageOutcomes],
          fails \in BOOLEAN, draws \in SampleDraws("clubberia") :
          fin = [source |-> "clubberia", scraped |-> <<>>, pages |-> pages,
                 fails |-> fails, draws |-> draws]
    /\ fout = <<>>
    /\ fpc = "ready"

SpecPages == InitPages /\ [][RunClubberia]_vars

\* C24: a run of scrape_clubberia requests at most 5 pages, requests no page
\* after the one with which the accumulated events reached 50, and returns
\* at most 50 events.
C24_BoundedPagesAndResult ==
    (fpc = "done" /\ fin.source = "clubberia") =>
        /\ ret.fetched \in 1..5
        /\ \A k \in 1..(ret.fetched - 1) :
              Len(EventsBefore(fin.pages, k + 1)) < 50
        /\ Len(fout) <= 50

\* a run that reached the ceiling with its third page, with more than 50
\* events collected and 50 of them returned
C24_Witness ==
    /\ fpc = "done" /\ fin.source = "clubberia" /\ ~fin.fails
    /\ ret.fetched = 3
    /\ fin.pages[4].status = "ok" /\ fin.pages[4].events # <<>>
    /\ Len(ret.all_events) > 50
    /\ Len(fout) = 50

\* page k of the run is requested: no page before it had no containers and
\* the pages before it gave fewer than 50 events
Requested(pages, k) ==
    /\ \A j \in 1..(k - 1) : pages[j].status # "none"
    /\ Len(EventsBefore(pages, k)) < 50

\* C25: when the fetch or the parse of a requested page k fails, the run
\* requests page k+1 (for k < 5), collects the events of all the pages it
\* requested, and returns what deduplication, the future filter and sorting
\* make of them: only synthesized events where fewer than 3 are left, and
\* never the all-synthetic list of a failed run.
C25_PageFailureIsSkipped ==
    (fpc = "done" /\ fin.source = "clubberia" /\ ~fin.fails) =>
        \A k \in 1..5 :
            (fin.pages[k].status = "error" /\ Requested(fin.pages, k)) =>
                LET kept == filter_future_events(remove_duplicates(ret.all_events))
                IN /\ ret.fetched >= Min(k + 1, 5)
                   /\ ret.all_events = EventsBefore(fin.pages, ret.fetched + 1)
                   /\ AllIn(Take(SortByDate(kept), 50), fout)
                   /\ Len(kept) >= 3 => AllIn(fout, ret.all_events)

\* a run whose second page failed, with events of its first and third
\* page returned and no synthesized event among them
C25_Witness ==
    /\ fpc = "done" /\ fin.source = "clubberia" /\ ~fin.fails
    /\ fin.pages[1].events = <<ScrapedLater, ScrapedPast>>
    /\ fin.pages[2].status = "error"
    /\ fin.pages[3].events = <<ScrapedNoDate, ScrapedToday, ScrapedAstrix>>
    /\ ret.fetched > 2
    /\ AllIn(<<ScrapedLater, ScrapedToday>>, fout)
    /\ AllIn(fout, ret.all_events)

\* C26: in the list a pipeline run returns, every event whose date parses
\* as YYYY/MM/DD is of today or later, the synthesized and mock events
\* included.
C26_ReturnedEventsNotPast ==
    fpc = "done" =>
        \A i \in 1..Len(fout) :
            LET p == Strptime(fout[i].date)
            IN p.ok => ToOrdinal(p.date) >= ToOrdinal(Today)

(***************************************************************************)
(* The Clubberia date extractor: _extract_date on the text of a container. *)
(***************************************************************************)
\* the items k.. of a pattern matched against t from index i on, as a
\* backtracking matcher with greedy quantifiers does it: each item is a
\* character class taken min to max times, or (words not empty) one of
\* some words, letter case ignored; ends are the last indexes of the items
RECURSIVE MatchFrom(_, _, _, _)
MatchFrom(t, i, items, k) ==
    IF k > Len(items) THEN [ok |-> TRUE, ends |-> <<>>]
    ELSE LET item == items[k]
             Fits(c) ==
                 /\ i + c - 1 <= Len(t)
                 /\ IF item.words # {}
                    THEN LowerText(SubSeq(t, i, i + c - 1)) \in item.words
                    ELSE \A j \in i..(i + c - 1) : t[j] \in item.set
             good == {c \in item.min..Min(item.max, Len(t)) :
                         Fits(c) /\ MatchFrom(t, i + c, items, k + 1).ok}
         IN IF good = {} THEN [ok |-> FALSE, ends |-> <<>>]
            ELSE LET c == CHOOSE x \in good : \A o \in good : o <= x
                 IN [ok |-> TRUE,
                     ends |-> <<i + c - 1>> \o MatchFrom(t, i + c, items, k + 1).ends]

\* re.search(pattern, t), and the first element of re.findall(pattern, t):
\* the leftmost match
Search(t, items) ==
    LET starts == {i \in 1..Len(t) : MatchFrom(t, i, items, 1).ok}
    IN IF starts = {} THEN [ok |-> FALSE, start |-> 0, ends |-> <<>>]
       ELSE LET i == CHOOSE x \in starts : \A o \in starts : x <= o
            IN [ok |-> TRUE, start |-> i, ends |-> MatchFrom(t, i, items, 1).ends]

\* _extract_date(container): text is container.get_text(), time_attr the
\* datetime attribute of its time element ('' when there is none), and
\* future_days what _get_future_date would draw.  (The digits of the texts
\* are ASCII digits.)
extract_date(text, time_attr, future_days) ==
    LET D(lo, hi) == [set |-> 48..57, min |-> lo, max |-> hi, words |-> {}]
        C(s) == [set |-> s, min |-> 1, max |-> 1, words |-> {}]
        weekday == [set |-> {}, min |-> 3, max |-> 3, words |-> {<<109, 111, 110>>, <<116, 117, 101>>, <<119, 101, 100>>, <<116, 104, 117>>, <<102, 114, 105>>, <<115, 97, 116>>, <<115, 117, 110>>}]
        space == [set |-> {9, 10, 11, 12, 13, 32, 12288}, min |-> 1,
                  max |-> Len(text), words |-> {}]
        zfill(t) == IF Len(t) < 2 THEN <<48>> \o t ELSE t
        year == <<Digit(Today.year \div 1000), Digit((Today.year \div 100) % 10),
                  Digit((Today.year \div 10) % 10), Digit(Today.year % 10)>>
        \* (\d{1,2})\.(\d{1,2})(MON|TUE|WED|THU|FRI|SAT|SUN)
        dotted == Search(text, <<D(1, 2), C({46}), D(1, 2), weekday>>)
        \* (\d{4})\s+(\d{2})(\d{2})(MON|TUE|WED|THU|FRI|SAT|SUN)
        spaced == Search(text, <<D(4, 4), space, D(2, 2), D(2, 2), weekday>>)
        standard_patterns ==
            <<<<D(4, 4), C({45, 47}), D(1, 2), C({45, 47}), D(1, 2)>>,
              <<D(1, 2), C({45, 47}), D(1, 2), C({45, 47}), D(4, 4)>>,
              <<D(4, 4), C({24180}), D(1, 2), C({26376}), D(1, 2), C({26085})>>,
              <<D(1, 2), C({26376}), D(1, 2), C({26085})>>>>
        found == {k \in 1..4 : Search(text, standard_patterns[k]).ok}
        Group(m, k) == SubSeq(text, IF k = 1 THEN m.start ELSE m.ends[k - 1] + 1,
                              m.ends[k])
    IN IF dotted.ok
       THEN [date |-> year \o <<47>> \o zfill(Group(dotted, 1)) \o <<47>>
                          \o zfill(Group(dotted, 3)),
             fallback |-> FALSE]
       ELSE IF spaced.ok
       THEN [date |-> Group(spaced, 1) \o <<47>> \o Group(spaced, 3) \o <<47>>
                          \o Group(spaced, 4),
             fallback |-> FALSE]
       ELSE IF found # {}
       THEN LET k == CHOOSE x \in found : \A o \in found : x <= o
                m == Search(text, standard_patterns[k])
            IN clubberia_format_date(SubSeq(text, m.start, m.ends[Len(m.ends)]),
                                     future_days)
       ELSE IF time_attr # <<>>
       THEN clubberia_format_date(time_attr, future_days)
       ELSE [date |-> get_future_date(future_days), fallback |-> TRUE]

\* texts of containers: '7.07MON Psy Night', '99.99MON', '2.30fri',
\* '17.07MON', '2026.11.21SAT', '2026 1305SAT', '2026 1112THU',
\* '2026/11/12 OPEN 22:00', '2026/2/30', '12/11/2026', '2026年11月12日',
\* '13月45日', '2026年2月30日', 'Psy Night', ''
ContainerTexts ==
    {<<55, 46, 48, 55, 77, 79, 78, 32, 80, 115, 121, 32, 78, 105, 103, 104, 116>>,
     <<57, 57, 46, 57, 57, 77, 79, 78>>,
     <<50, 46, 51, 48, 102, 114, 105>>,
     <<49, 55, 46, 48, 55, 77, 79, 78>>,
     <<50, 48, 50, 54, 46, 49, 49, 46, 50, 49, 83, 65, 84>>,
     <<50, 48, 50, 54, 32, 49, 51, 48, 53, 83, 65, 84>>,
     <<50, 48, 50, 54, 32, 49, 49, 49, 50, 84, 72, 85>>,
     <<50, 48, 50, 54, 47, 49, 49, 47, 49, 50, 32, 79, 80, 69, 78, 32, 50, 50, 58, 48, 48>>,
     <<50, 48, 50, 54, 47, 50, 47, 51, 48>>,
     <<49, 50, 47, 49, 49, 47, 50, 48, 50, 54>>,
     <<50, 48, 50, 54, 24180, 49, 49, 26376, 49, 50, 26085>>,
     <<49, 51, 26376, 52, 53, 26085>>,
     <<50, 48, 50, 54, 24180, 50, 26376, 51, 48, 26085>>,
     <<80, 115, 121, 32, 78, 105, 103, 104, 116>>,
     <<>>}

\* datetime attributes: '' (none), '2026-11-12T20:00:00', 'TBA'
TimeAttributes == {<<>>, <<50, 48, 50, 54, 45, 49, 49, 45, 49, 50, 84, 50, 48, 58, 48, 48, 58, 48, 48>>, <<84, 66, 65>>}

InitExtract ==
    /\ InitIdleCache
    /\ InitIdleApi
    /\ \E text \in ContainerTexts, time_attr \in TimeAttributes,
          days \in {FutureDaysMin("clubberia"), FutureDaysMax("clubberia")} :
          fin = [text |-> text, time_attr |-> time_attr, days |-> days]
    /\ fout = <<>>
    /\ fpc = "ready"

ExtractDate ==
    /\ fpc = "ready"
    /\ fout' = extract_date(fin.text, fin.time_attr, fin.days)
    /\ fpc' = "done"
    /\ UNCHANGED <<cacheVars, ret, apiVars, fin, threadVars>>

SpecExtract == InitExtract /\ [][ExtractDate]_vars

\* C27: the date the Clubberia date extractor gives an event is a valid
\* calendar date written YYYY/MM/DD with two-digit month and day, whether it
\* comes from a matched pattern or is the generated future date.
C27_ExtractedDateIsCanonical ==
    fpc = "done" =>
        /\ Strptime(fout.date).ok
        /\ Strftime(Strptime(fout.date).date) = fout.date

(***************************************************************************)
(* The detail harness: one listed event through the Detail Enricher, then  *)
(* the cached list through the genre filter of GET /events.                *)
(***************************************************************************)
InitDetail ==
    /\ InitIdleCache
    /\ InitIdleApi
    /\ \E event \in ListedEvents, page \in DetailPages, raises_at \in RaisePoints :
          fin = [event |-> event, page |-> page, raises_at |-> raises_at]
    /\ fout = <<>>
    /\ fpc = "ready"

\* "if self._fetch_and_filter_event_details(event): page_events.append(event)"
FetchDetails ==
    /\ fpc = "ready"
    /\ fout' = fetch_and_filter_event_details(fin.event, fin.page, fin.raises_at)
    /\ fpc' = "done"
    /\ UNCHANGED <<cacheVars, ret, apiVars, fin, threadVars>>

\* GET /events?source=clubberia&genre=psy when the cached list is what the
\* run collected
ServePsy ==
    /\ fpc = "done"
    /\ LET cached == IF fout.accepted THEN <<fout.event>> ELSE <<>>
       IN ret' = [op |-> "get_events", cached |-> cached,
                  events |-> GenreFilter("psy", cached)]
    /\ fpc' = "served"
    /\ UNCHANGED <<cacheVars, apiVars, fin, fout, threadVars>>

NextDetail == FetchDetails \/ ServePsy

SpecDetail == InitDetail /\ [][NextDetail]_vars

\* C28: when the fetch of the detail page fails or a step of the enrichment
\* raises, genre, description and place of the event are what they were
\* before; title, date, url, image and id are never changed.
C28_FailedEnrichmentChangesNothing ==
    fpc # "ready" =>
        /\ (fin.page.raised \/ fin.page.status_code # 200 \/ fin.raises_at # "none") =>
              /\ fout.event.genre = fin.event.genre
              /\ fout.event.description = fin.event.description
              /\ fout.event.place = fin.event.place
        /\ \A f \in {"title", "date", "url", "image", "id"} :
              fout.event[f] = fin.event[f]

\* C29: what GET /events?source=clubberia&genre=psy returns is the cached
\* events that is_psy_event_strict accepts, in cached order; the second pass
\* removes nothing; and every event the run accepted is returned.
C29_AcceptedEventsAreReturned ==
    fpc = "served" =>
        /\ ret.events = SelectSeq(ret.cached, is_psy_event_strict)
        /\ SecondPass(filter_psy_events(ret.cached)) = filter_psy_events(ret.cached)
        /\ fout.accepted => \E i \in 1..Len(ret.events) : ret.events[i] = fout.event

(***************************************************************************)
(* The ids of extracted events: _parse_event_container of the Clubberia    *)
(* and of the psytrance scraper.                                           *)
(***************************************************************************)
\* "hash(title + date + place) % 1000000" and "hash(title + date) % 1000000"
\* when hash gives h: the hash of a str is an integer that differs from
\* process to process, and % gives the remainder in 0..999999 also for a
\* negative h
parse_event_id(h) == h % 1000000

\* values of hash(): some of each remainder near the two ranges of the
\* synthesizers, below and above zero
HashValues ==
    {k * 1000000 + r :
        k \in {-2000, -1, 0, 1, 2000},
        r \in {0, 3999, 4000, 4003, 4007, 4008, 4999, 5000, 5004, 5007, 5008, 999999}}

InitIds ==
    /\ InitIdleCache
    /\ InitIdleApi
    /\ \E source \in {"clubberia", "psytrance"}, h \in HashValues :
          fin = [source |-> source, hash |-> h]
    /\ fout = <<>>
    /\ fpc = "ready"

ParseContainer ==
    /\ fpc = "ready"
    /\ fout' = [id |-> parse_event_id(fin.hash)]
    /\ fpc' = "done"
    /\ UNCHANGED <<cacheVars, ret, apiVars, fin, threadVars>>

SpecIds == InitIds /\ [][ParseContainer]_vars

\* C30: the synthesized Clubberia events have the ids 5000..5007, the
\* synthesized psytrance events the ids 4000..4007, and no event built from
\* a scraped container has an id in those ranges.
C30_SyntheticIdsReserved ==
    fpc = "done" =>
        /\ \A draws \in SampleDraws("clubberia") :
              {get_realistic_clubberia_events(draws)[i].id : i \in 1..Len(draws)} = 5000..5007
        /\ \A draws \in SampleDraws("psytrance") :
              {get_realistic_psytrance_events(draws)[i].id : i \in 1..Len(draws)} = 4000..4007
        /\ fout.id \notin (4000..4007) \cup (5000..5007)

====
